---- MODULE Spec2Model ----
(***************************************************************************)
(* Data Dash: the schema normaliser (prepare_data), the filter engine      *)
(* (get_filter_options, filter_data) and the metrics aggregator            *)
(* (calculate_kpis, get_return_metrics, get_breakdown,                     *)
(* calculate_monthly_metrics) of src/src/load.py and src/src/metrics.py,   *)
(* run in the order the pages run them.  The caller of a run is "page", a  *)
(* run of Home.py's main() with its two gates (no sales column, no row in  *)
(* the view), or "call", the functions called on their own.                *)
(*                                                                         *)
(* A data frame is [cols, rows]: cols the ordered column names, rows a     *)
(* sequence of functions from column name to value.  Strings are sequences *)
(* of one-character strings so that str(), lower() and sorted() are        *)
(* computed.  Floats are exact rationals plus NaN and the two infinities   *)
(* (binary rounding is not modelled).  Library behaviour is that of        *)
(* pandas 2.x unless a definition says otherwise.                          *)
(***************************************************************************)
EXTENDS Integers, Sequences, FiniteSets, TLC

VARIABLES raw, mapping, selection, caller, pc, prepared, options, filtered,
          kpis, retm, breakdown, monthly,
          ask, top_items, repeat, top_customers, return_items,
          data, column_mapping, file_name, uploaded_file, script, picks, event,
          notice, invoked

vars == <<raw, mapping, selection, caller, pc, prepared, options, filtered,
          kpis, retm, breakdown, monthly,
          ask, top_items, repeat, top_customers, return_items,
          data, column_mapping, file_name, uploaded_file, script, picks, event,
          notice, invoked>>

\* st.session_state.
stored == <<data, column_mapping, file_name>>

\* The uploader, the script on screen and the interaction that started its run.
widgets == <<uploaded_file, script, event>>

\* What a run of a script starts from.
session == <<stored, widgets, picks>>

\* What a run computes.
results == <<prepared, options, filtered, kpis, retm, breakdown, monthly,
             top_items, repeat, top_customers, return_items>>

(***************************************************************************)
(* Bounds of the model.                                                    *)
(***************************************************************************)
MaxRows == 2

\* The most roles a mapping of InitColumns maps.
MaxMapped == 2

\* Python's None, and the value of a result that has not been computed yet.
None == "None"

Max2(a, b) == IF a >= b THEN a ELSE b

Abs(i) == IF i < 0 THEN -i ELSE i

RECURSIVE Gcd(_, _)
Gcd(a, b) == IF b = 0 THEN a ELSE Gcd(b, a % b)

\* All sequences over S of length at most n.
SeqsUpTo(S, n) == UNION {[1..k -> S] : k \in 0..n}

Range(f) == {f[i] : i \in DOMAIN f}

(***************************************************************************)
(* Strings.                                                                *)
(***************************************************************************)
\* The characters of the model's strings, in code point order.
Alphabet ==
    <<" ", "+", "-", ".", "0", "1", "2", "3", "4", "5", "6", "7", "8", "9",
      ":", "A", "B", "C", "E", "F", "N", "O", "R", "S", "T", "U", "Y",
      "a", "b", "c", "d", "e", "l", "n", "o", "r", "s", "t", "u", "y">>

Ord(c) == CHOOSE i \in 1..Len(Alphabet) : Alphabet[i] = c

DigitChars == <<"0", "1", "2", "3", "4", "5", "6", "7", "8", "9">>

IsDigit(c) == \E i \in 1..10 : DigitChars[i] = c

DigitVal(c) == (CHOOSE i \in 1..10 : DigitChars[i] = c) - 1

\* str.lower() of one character.
LowerChar(c) ==
    CASE c = "A" -> "a" [] c = "B" -> "b" [] c = "C" -> "c" [] c = "E" -> "e"
      [] c = "F" -> "f" [] c = "N" -> "n" [] c = "O" -> "o" [] c = "R" -> "r"
      [] c = "S" -> "s" [] c = "T" -> "t" [] c = "U" -> "u" [] c = "Y" -> "y"
      [] OTHER -> c

\* .str.lower() left out.
Lower_Missing(s) == s

\* Series.str.lower().
Lower(s) == [i \in 1..Len(s) |-> LowerChar(s[i])]

\* Python's < on str: lexicographic by code point.
RECURSIVE StrLess(_, _)
StrLess(s, t) ==
    IF t = <<>> THEN FALSE
    ELSE IF s = <<>> THEN TRUE
    ELSE IF s[1] # t[1] THEN Ord(s[1]) < Ord(t[1])
    ELSE StrLess(Tail(s), Tail(t))

\* The decimal digits of a natural number.
RECURSIVE NatStr(_)
NatStr(n) ==
    IF n < 10 THEN <<DigitChars[n + 1]>>
    ELSE NatStr(n \div 10) \o <<DigitChars[(n % 10) + 1]>>

IntStr(i) == IF i < 0 THEN <<"-">> \o NatStr(-i) ELSE NatStr(i)

\* A natural number zero-padded to two digits.
Pad2(n) == IF n < 10 THEN <<"0">> \o NatStr(n) ELSE NatStr(n)

AllDigits(s) == s # <<>> /\ \A i \in 1..Len(s) : IsDigit(s[i])

RECURSIVE DigitsVal(_)
DigitsVal(s) ==
    IF s = <<>> THEN 0
    ELSE 10 * DigitsVal(SubSeq(s, 1, Len(s) - 1)) + DigitVal(s[Len(s)])

(***************************************************************************)
(* Floats: [t, n, d] with t = "fin" (the rational n/d in lowest terms,     *)
(* d > 0), "nan", or "inf" (n the sign).                                   *)
(***************************************************************************)
NaN == [t |-> "nan", n |-> 0, d |-> 1]

Inf(sign) == [t |-> "inf", n |-> sign, d |-> 1]

Sign(i) == IF i > 0 THEN 1 ELSE IF i < 0 THEN -1 ELSE 0

Frac(n, d) ==
    LET g == Gcd(Abs(n), Abs(d))
        s == Sign(d)
    IN  [t |-> "fin", n |-> (s * n) \div g, d |-> (s * d) \div g]

Num(i) == [t |-> "fin", n |-> i, d |-> 1]

IsNaN(x) == x.t = "nan"

IsFinite(x) == x.t = "fin"

FAdd(x, y) ==
    IF IsNaN(x) \/ IsNaN(y) THEN NaN
    ELSE IF x.t = "inf" /\ y.t = "inf" THEN (IF x.n = y.n THEN x ELSE NaN)
    ELSE IF x.t = "inf" THEN x
    ELSE IF y.t = "inf" THEN y
    ELSE Frac(x.n * y.d + y.n * x.d, x.d * y.d)

FNeg(x) == IF x.t = "nan" THEN x ELSE [x EXCEPT !.n = -x.n]

FSub(x, y) == FAdd(x, FNeg(y))

FMul(x, y) ==
    IF IsNaN(x) \/ IsNaN(y) THEN NaN
    ELSE IF x.t = "inf" \/ y.t = "inf"
         THEN (IF x.n = 0 \/ y.n = 0 THEN NaN ELSE Inf(Sign(x.n) * Sign(y.n)))
    ELSE Frac(x.n * y.n, x.d * y.d)

\* numpy's float division: x/0 is +-inf, 0/0 is NaN, nothing raises.
FDiv(x, y) ==
    IF IsNaN(x) \/ IsNaN(y) THEN NaN
    ELSE IF x.t = "inf" THEN (IF y.t = "inf" THEN NaN
                              ELSE Inf(x.n * (IF y.n < 0 THEN -1 ELSE 1)))
    ELSE IF y.t = "inf" THEN Num(0)
    ELSE IF y.n = 0 THEN (IF x.n = 0 THEN NaN ELSE Inf(Sign(x.n)))
    ELSE Frac(x.n * y.d, x.d * y.n)

\* x > 0 on floats (False for NaN).
FPos(x) == x.t # "nan" /\ x.n > 0

\* Series.round(2): to the nearest hundredth, ties to even; NaN and the
\* infinities are kept.
Round2(x) ==
    IF x.t # "fin" THEN x
    ELSE LET a == 100 * x.n
             q == a \div x.d
             r == a % x.d
             up == 2 * r > x.d \/ (2 * r = x.d /\ q % 2 = 1)
         IN  Frac(IF up THEN q + 1 ELSE q, 100)

\* Series.sum(): 0 for an empty series.
RECURSIVE FSum(_)
FSum(s) == IF s = <<>> THEN Num(0) ELSE FAdd(s[1], FSum(Tail(s)))

\* Series.mean(): NaN for an empty series.
FMean(s) == IF s = <<>> THEN NaN ELSE FDiv(FSum(s), Num(Len(s)))

(***************************************************************************)
(* Raw cells: [k, n, s] with k the Python type of the value read from the  *)
(* file: "null" (NaN), "int", "float" (the integral float n.0), "bool"     *)
(* (n = 1 for True) or "str" (s its characters).                           *)
(***************************************************************************)
Null == [k |-> "null", n |-> 0, s |-> <<>>]

IntC(i) == [k |-> "int", n |-> i, s |-> <<>>]

FloatC(i) == [k |-> "float", n |-> i, s |-> <<>>]

BoolC(b) == [k |-> "bool", n |-> IF b THEN 1 ELSE 0, s |-> <<>>]

StrC(s) == [k |-> "str", n |-> 0, s |-> s]

\* Series.astype(str), one element.
AsStr(c) ==
    CASE c.k = "null" -> <<"n", "a", "n">>
      [] c.k = "int" -> IntStr(c.n)
      [] c.k = "float" -> IntStr(c.n) \o <<".", "0">>
      [] c.k = "bool" -> (IF c.n = 1 THEN <<"T", "r", "u", "e">>
                          ELSE <<"F", "a", "l", "s", "e">>)
      [] OTHER -> c.s

\* The position of the first "." of s, 0 when it has none.
DotAt(s) ==
    IF \E i \in 1..Len(s) : s[i] = "."
    THEN CHOOSE i \in 1..Len(s) : s[i] = "." /\ \A j \in 1..(i - 1) : s[j] # "."
    ELSE 0

RECURSIVE Pow10(_)
Pow10(k) == IF k = 0 THEN 1 ELSE 10 * Pow10(k - 1)

\* The number an unsigned decimal string denotes, NaN when it denotes none.
ParseUnsigned(s) ==
    LET dot == DotAt(s)
        ip  == SubSeq(s, 1, dot - 1)
        fp  == SubSeq(s, dot + 1, Len(s))
    IN  IF dot = 0 THEN (IF AllDigits(s) THEN Num(DigitsVal(s)) ELSE NaN)
        ELSE IF AllDigits(ip) /\ AllDigits(fp)
             THEN Frac(DigitsVal(ip) * Pow10(Len(fp)) + DigitsVal(fp), Pow10(Len(fp)))
             ELSE NaN

\* pd.to_numeric(errors='coerce'), one element: NaN for what is no number,
\* and the element itself in a column of floats (a canonical column read as
\* a source).
ToNumeric(c) ==
    CASE "t" \in DOMAIN c -> c
      [] c.k = "null" -> NaN
      [] c.k \in {"int", "float", "bool"} -> Num(c.n)
      [] OTHER ->
           IF c.s # <<>> /\ c.s[1] = "-" THEN FNeg(ParseUnsigned(Tail(c.s)))
           ELSE IF c.s # <<>> /\ c.s[1] = "+" THEN ParseUnsigned(Tail(c.s))
           ELSE ParseUnsigned(c.s)

\* fillna(0) left out.
FillNa0_Missing(x) == x

\* Series.fillna(0), one element.
FillNa0(x) == IF IsNaN(x) THEN Num(0) ELSE x

\* The values the returned flag accepts (load.py line 87).
ReturnedTokens ==
    { <<"y", "e", "s">>, <<"t", "r", "u", "e">>, <<"1">>,
      <<"r", "e", "t", "u", "r", "n", "e", "d">> }

\* astype(str).str.lower().isin([...]), one element.
IsReturned(c) == Lower(AsStr(c)) \in ReturnedTokens

(***************************************************************************)
(* Dates: [k, y, m, d, h, mi, off] with k = "nat", "naive" or "aware"      *)
(* (off the UTC offset in hours).  The strings understood are              *)
(* YYYY-MM-DD, YYYY-MM-DD HH:MM and YYYY-MM-DD HH:MM+HH:00.                *)
(***************************************************************************)
NaT == [k |-> "nat", y |-> 0, m |-> 0, d |-> 0, h |-> 0, mi |-> 0, off |-> 0]

IsNaT(v) == v.k = "nat"

DaysIn(y, m) ==
    IF m = 2 THEN (IF y % 4 = 0 /\ (y % 100 # 0 \/ y % 400 = 0) THEN 29 ELSE 28)
    ELSE IF m \in {4, 6, 9, 11} THEN 30 ELSE 31

\* The format pandas guesses for a string: "date", "datetime", "datetime_tz",
\* or "none" when it is no date.
DateFormat(s) ==
    LET dateOk == Len(s) >= 10 /\ AllDigits(SubSeq(s, 1, 4)) /\ s[5] = "-"
                  /\ AllDigits(SubSeq(s, 6, 7)) /\ s[8] = "-"
                  /\ AllDigits(SubSeq(s, 9, 10))
                  /\ DigitsVal(SubSeq(s, 6, 7)) \in 1..12
                  /\ DigitsVal(SubSeq(s, 9, 10)) \in
                        1..DaysIn(DigitsVal(SubSeq(s, 1, 4)), DigitsVal(SubSeq(s, 6, 7)))
        timeOk == Len(s) >= 16 /\ s[11] = " " /\ AllDigits(SubSeq(s, 12, 13))
                  /\ s[14] = ":" /\ AllDigits(SubSeq(s, 15, 16))
                  /\ DigitsVal(SubSeq(s, 12, 13)) \in 0..23
                  /\ DigitsVal(SubSeq(s, 15, 16)) \in 0..59
        tzOk   == Len(s) = 22 /\ s[17] \in {"+", "-"} /\ AllDigits(SubSeq(s, 18, 19))
                  /\ s[20] = ":" /\ SubSeq(s, 21, 22) = <<"0", "0">>
    IN  IF ~dateOk THEN "none"
        ELSE IF Len(s) = 10 THEN "date"
        ELSE IF ~timeOk THEN "none"
        ELSE IF Len(s) = 16 THEN "datetime"
        ELSE IF tzOk THEN "datetime_tz"
        ELSE "none"

\* The timestamp a date string denotes.
ParseDateStr(s) ==
    LET f == DateFormat(s)
    IN  IF f = "none" THEN NaT
        ELSE [k   |-> IF f = "datetime_tz" THEN "aware" ELSE "naive",
              y   |-> DigitsVal(SubSeq(s, 1, 4)),
              m   |-> DigitsVal(SubSeq(s, 6, 7)),
              d   |-> DigitsVal(SubSeq(s, 9, 10)),
              h   |-> IF f = "date" THEN 0 ELSE DigitsVal(SubSeq(s, 12, 13)),
              mi  |-> IF f = "date" THEN 0 ELSE DigitsVal(SubSeq(s, 15, 16)),
              off |-> IF f # "datetime_tz" THEN 0
                      ELSE (IF s[17] = "-" THEN -1 ELSE 1) * DigitsVal(SubSeq(s, 18, 19))]

\* A calendar date (datetime.date) as the timestamp of its midnight:
\* pd.to_datetime(date), and what st.date_input makes of a timestamp.
Midnight(v) == [v EXCEPT !.k = "naive", !.h = 0, !.mi = 0, !.off = 0]

\* A number that orders timestamps as time orders them (months counted as
\* 31 days: the order of calendar dates is kept).
TimeKey(v) ==
    ((((v.y * 12 + (v.m - 1)) * 31 + (v.d - 1)) * 24 + v.h - v.off) * 60) + v.mi

\* The format pd.to_datetime infers for a column: that of its first non-null
\* element ("none": no format, every element is parsed on its own).
ColumnFormat(cells) ==
    IF \A i \in 1..Len(cells) : cells[i].k = "null" THEN "none"
    ELSE LET i == CHOOSE j \in 1..Len(cells) :
                     cells[j].k # "null" /\ \A l \in 1..(j - 1) : cells[l].k = "null"
         IN  IF cells[i].k = "str" THEN DateFormat(cells[i].s) ELSE "none"

\* pd.to_datetime(column, errors='coerce'), element by element: NaT for a
\* null, for what is no date and for what does not match the column's format.
ToDatetime(cells) ==
    LET f == ColumnFormat(cells)
    IN  [i \in 1..Len(cells) |->
            IF cells[i].k # "str" THEN NaT
            ELSE IF f # "none" /\ DateFormat(cells[i].s) # f THEN NaT
            ELSE ParseDateStr(cells[i].s)]

\* Timestamps of more than one UTC offset: pd.to_datetime then gives a column
\* of Python datetimes (dtype object), on which the .dt accessor raises.
MixedOffsets(dates) ==
    Cardinality({dates[i].off : i \in {j \in 1..Len(dates) : dates[j].k = "aware"}}) > 1

\* Series.dt.year / month / quarter: NaN for NaT.
DtYear(v) == IF IsNaT(v) THEN NaN ELSE Num(v.y)

DtMonth(v) == IF IsNaT(v) THEN NaN ELSE Num(v.m)

DtQuarter(v) == IF IsNaT(v) THEN NaN ELSE Num(((v.m - 1) \div 3) + 1)

\* Series.dt.to_period('M').astype(str): "YYYY-MM", and "NaT" for NaT.
DtYearMonth(v) ==
    IF IsNaT(v) THEN <<"N", "a", "T">>
    ELSE NatStr(v.y) \o <<"-">> \o Pad2(v.m)

(***************************************************************************)
(* Data frames.                                                            *)
(***************************************************************************)
Roles ==
    {"date", "sales", "profit", "quantity", "discount", "category", "customer",
     "order_id", "region", "segment", "product", "returned"}

NumericRoles == {"sales", "profit", "quantity", "discount"}

StringRoles == {"category", "customer", "order_id", "region", "segment", "product"}

\* The canonical column of a role.
Canon(role) ==
    CASE role = "date" -> "_date" [] role = "sales" -> "_sales"
      [] role = "profit" -> "_profit" [] role = "quantity" -> "_quantity"
      [] role = "discount" -> "_discount" [] role = "category" -> "_category"
      [] role = "customer" -> "_customer" [] role = "order_id" -> "_order_id"
      [] role = "region" -> "_region" [] role = "segment" -> "_segment"
      [] role = "product" -> "_product" [] role = "returned" -> "_returned"

\* The columns derived from the parsed date.
DateParts == {"_year", "_month", "_year_month", "_quarter"}

\* name in df.columns
HasCol(df, c) == \E i \in 1..Len(df.cols) : df.cols[i] = c

\* df[c]
Column(df, c) == [i \in 1..Len(df.rows) |-> df.rows[i][c]]

\* df[c] = vals: a new column goes last, an existing one keeps its place.
Assign(df, c, vals) ==
    [cols |-> IF HasCol(df, c) THEN df.cols ELSE Append(df.cols, c),
     rows |-> [i \in 1..Len(df.rows) |->
                 [x \in (DOMAIN df.rows[i]) \cup {c} |->
                     IF x = c THEN vals[i] ELSE df.rows[i][x]]]]

\* df[mask]: the rows that satisfy Keep, in their order.
Restrict(df, Keep(_)) == [cols |-> df.cols, rows |-> SelectSeq(df.rows, Keep)]

MapSeq(s, F(_)) == [i \in 1..Len(s) |-> F(s[i])]

\* mapping.get(role) is truthy
Mapped(m, role) == m[role] # None

(***************************************************************************)
(* prepare_data                                                            *)
(***************************************************************************)
\* Lines 45-48: the four columns read off prepared['_date'].dt.
WithDateParts(df) ==
    LET dates == Column(df, "_date")
        d1 == Assign(df, "_year", MapSeq(dates, DtYear))
        d2 == Assign(d1, "_month", MapSeq(dates, DtMonth))
        d3 == Assign(d2, "_year_month", MapSeq(dates, DtYearMonth))
    IN  Assign(d3, "_quarter", MapSeq(dates, DtQuarter))

\* Lines 42-50.  With timestamps of several UTC offsets line 44 stores a
\* column of dtype object and line 45 raises; "except Exception: pass" then
\* leaves _date without the derived columns.  A mapping that names no column
\* of df raises at line 44, and the same except leaves df as it was.
PrepareDate(df, m) ==
    IF ~Mapped(m, "date") \/ ~HasCol(df, m["date"]) THEN df
    ELSE LET dates == ToDatetime(Column(df, m["date"]))
             d1 == Assign(df, "_date", dates)
         IN  IF MixedOffsets(dates) THEN d1 ELSE WithDateParts(d1)

\* pd.to_numeric(column, errors='coerce').fillna(0)
NumericColumn(cells) == MapSeq(cells, LAMBDA c : FillNa0(ToNumeric(c)))

\* Lines 53-63, one numeric role.
PrepareNumeric(df, m, role) ==
    IF Mapped(m, role)
    THEN Assign(df, Canon(role), NumericColumn(Column(df, m[role])))
    ELSE df

\* Lines 66-82, one string role.
PrepareString(df, m, role) ==
    IF Mapped(m, role)
    THEN Assign(df, Canon(role), MapSeq(Column(df, m[role]), AsStr))
    ELSE df

\* Lines 85-87.
PrepareReturned(df, m) ==
    IF Mapped(m, "returned")
    THEN Assign(df, "_returned", MapSeq(Column(df, m["returned"]), IsReturned))
    ELSE df

\* prepared[mapping[role]] with no such column: KeyError.
KeyRaises(df, m, role) == Mapped(m, role) /\ ~HasCol(df, m[role])

\* prepare_data raises: the KeyError of lines 54-86, which no try encloses.
prepare_data_raises(df, m) ==
    \E role \in Roles \ {"date"} : KeyRaises(df, m, role)

\* Line 39: prepare_data works on a copy, the frame passed in stays as it was.
InputAfterPrepare(df, m) == df

prepare_data(df, m) ==
    LET p1  == PrepareDate(df, m)
        p2  == PrepareNumeric(p1, m, "sales")
        p3  == PrepareNumeric(p2, m, "profit")
        p4  == PrepareNumeric(p3, m, "quantity")
        p5  == PrepareNumeric(p4, m, "discount")
        p6  == PrepareString(p5, m, "category")
        p7  == PrepareString(p6, m, "customer")
        p8  == PrepareString(p7, m, "order_id")
        p9  == PrepareString(p8, m, "region")
        p10 == PrepareString(p9, m, "segment")
        p11 == PrepareString(p10, m, "product")
    IN  PrepareReturned(p11, m)

(***************************************************************************)
(* get_filter_options                                                      *)
(***************************************************************************)
\* None where a timestamp or a calendar date is expected.
NoDate == [k |-> "none", y |-> 0, m |-> 0, d |-> 0, h |-> 0, mi |-> 0, off |-> 0]

\* Series.dropna() on timestamps.
DropNaT(dates) == SelectSeq(dates, LAMBDA v : ~IsNaT(v))

MinDate(dates) ==
    CHOOSE v \in Range(dates) : \A w \in Range(dates) : TimeKey(v) <= TimeKey(w)

MaxDate(dates) ==
    CHOOSE v \in Range(dates) : \A w \in Range(dates) : TimeKey(w) <= TimeKey(v)

\* sorted(set of strings)
RECURSIVE SortedStrings(_)
SortedStrings(S) ==
    IF S = {} THEN <<>>
    ELSE LET least == CHOOSE s \in S : \A t \in S : ~StrLess(t, s)
         IN  <<least>> \o SortedStrings(S \ {least})

\* sorted(df[c].dropna().unique().tolist()): the column holds strings, of
\* which none is NaN, so dropna() drops nothing.
Domain(df, c) == IF HasCol(df, c) THEN SortedStrings(Range(Column(df, c))) ELSE <<>>

get_filter_options(df) ==
    LET valid == IF HasCol(df, "_date") THEN DropNaT(Column(df, "_date")) ELSE <<>>
    IN  [min_date     |-> IF Len(valid) > 0 THEN MinDate(valid) ELSE NoDate,
         max_date     |-> IF Len(valid) > 0 THEN MaxDate(valid) ELSE NoDate,
         categories   |-> Domain(df, "_category"),
         regions      |-> Domain(df, "_region"),
         segments     |-> Domain(df, "_segment"),
         has_date     |-> HasCol(df, "_date"),
         has_category |-> HasCol(df, "_category"),
         has_region   |-> HasCol(df, "_region"),
         has_segment  |-> HasCol(df, "_segment"),
         has_profit   |-> HasCol(df, "_profit"),
         has_quantity |-> HasCol(df, "_quantity"),
         has_customer |-> HasCol(df, "_customer"),
         has_order_id |-> HasCol(df, "_order_id"),
         has_product  |-> HasCol(df, "_product"),
         has_returned |-> HasCol(df, "_returned"),
         has_discount |-> HasCol(df, "_discount")]

(***************************************************************************)
(* filter_data                                                             *)
(***************************************************************************)
\* A list argument: None, or the list vals.
NoList == [none |-> TRUE, vals |-> <<>>]

List(vals) == [none |-> FALSE, vals |-> vals]

\* A calendar date (datetime.date), what st.date_input returns.
DateOf(v) == [Midnight(v) EXCEPT !.k = "date"]

\* pd.to_datetime(bound): a calendar date becomes its midnight.
BoundTimestamp(b) == IF b.k = "date" THEN Midnight(b) ELSE b

\* filtered['_date'] >= start_dt, one element: False for NaT.
OnOrAfter(v, start_dt) == ~IsNaT(v) /\ TimeKey(v) >= TimeKey(start_dt)

\* filtered['_date'] <= end_dt, one element: False for NaT.
OnOrBefore(v, end_dt) == ~IsNaT(v) /\ TimeKey(v) <= TimeKey(end_dt)

\* Comparing timezone-aware timestamps with the timezone-naive bound raises
\* TypeError.
ComparisonRaises(df) ==
    \E i \in 1..Len(df.rows) : df.rows[i]["_date"].k = "aware"

\* Lines 107-109.
FilterStart(df, start_date) ==
    IF start_date.k # "none" /\ HasCol(df, "_date")
    THEN Restrict(df, LAMBDA r : OnOrAfter(r["_date"], BoundTimestamp(start_date)))
    ELSE df

\* Lines 111-113.
FilterEnd(df, end_date) ==
    IF end_date.k # "none" /\ HasCol(df, "_date")
    THEN Restrict(df, LAMBDA r : OnOrBefore(r["_date"], BoundTimestamp(end_date)))
    ELSE df

\* The test without its emptiness checks: an empty list filters.
ListActive_EmptyFilters(df, c, values) == ~values.none /\ HasCol(df, c)

\* "if values and len(values) > 0 and c in filtered.columns"
ListActive(df, c, values) == ~values.none /\ Len(values.vals) > 0 /\ HasCol(df, c)

\* The isin filter left out.
FilterIsin_Ignored(df, c, values) == df

\* Lines 116-123, one dimension.
FilterIsin(df, c, values) ==
    IF ListActive(df, c, values)
    THEN Restrict(df, LAMBDA r : r[c] \in Range(values.vals))
    ELSE df

\* filter_data raises where its first date comparison raises.
filter_data_raises(df, sel) ==
    /\ HasCol(df, "_date")
    /\ sel.start_date.k # "none" \/ sel.end_date.k # "none"
    /\ ComparisonRaises(df)

\* The caller's frame filtered in place.
InputAfterFilter_InPlace(df, sel) ==
    FilterIsin(FilterIsin(FilterIsin(FilterEnd(FilterStart(df, sel.start_date), sel.end_date),
                                     "_category", sel.categories),
                          "_region", sel.regions),
               "_segment", sel.segments)

\* The caller's frame after filter_data: line 104 works on a copy and lines
\* 109-123 rebind the local name, so the argument is what it was.
InputAfterFilter(df, sel) == df

filter_data(df, sel) ==
    LET f1 == FilterStart(df, sel.start_date)
        f2 == FilterEnd(f1, sel.end_date)
        f3 == FilterIsin(f2, "_category", sel.categories)
        f4 == FilterIsin(f3, "_region", sel.regions)
    IN  FilterIsin(f4, "_segment", sel.segments)

(***************************************************************************)
(* Aggregation helpers.                                                    *)
(***************************************************************************)
\* Series.nunique()
NUnique(vals) == Num(Cardinality(Range(vals)))

\* Series.sum() of a boolean column: the number of True.
CountTrue(vals) == Num(Cardinality({i \in 1..Len(vals) : vals[i]}))

\* x < y on floats that are not NaN.
FLess(x, y) ==
    IF x.t = "inf" THEN x.n < 0 /\ ~(y.t = "inf" /\ y.n < 0)
    ELSE IF y.t = "inf" THEN y.n > 0
    ELSE x.n * y.d < y.n * x.d

\* The keys of df.groupby(c), in the sorted order groupby gives them.
\* The group of the null values, spelled "nan", left out.
GroupKeys_WithoutNan(df, c) == SortedStrings(Range(Column(df, c)) \ {<<"n", "a", "n">>})

\* df.groupby(c): the keys in sorted order.  The canonical columns hold
\* strings, "nan" for a null, so no row is without a group.
GroupKeys(df, c) == SortedStrings(Range(Column(df, c)))

\* The rows of one group, as a frame.
Group(df, c, key) == Restrict(df, LAMBDA r : r[c] = key)

\* The sort left out.
SortDesc_Unsorted(rows, c) == rows

\* sort_values(c, ascending=False): by descending float, ties in their order.
RECURSIVE SortDesc(_, _)
SortDesc(rows, c) ==
    IF rows = <<>> THEN <<>>
    ELSE LET done == SortDesc(SubSeq(rows, 1, Len(rows) - 1), c)
             r    == rows[Len(rows)]
             k    == Cardinality({i \in 1..Len(done) : ~FLess(done[i][c], r[c])})
         IN  SubSeq(done, 1, k) \o <<r>> \o SubSeq(done, k + 1, Len(done))

\* sort_values(c): by ascending string, ties in their order.
RECURSIVE SortAscStr(_, _)
SortAscStr(rows, c) ==
    IF rows = <<>> THEN <<>>
    ELSE LET done == SortAscStr(SubSeq(rows, 1, Len(rows) - 1), c)
             r    == rows[Len(rows)]
             k    == Cardinality({i \in 1..Len(done) : ~StrLess(r[c], done[i][c])})
         IN  SubSeq(done, 1, k) \o <<r>> \o SubSeq(done, k + 1, Len(done))

\* An Optional[DataFrame] result: None, or the rows of the frame.
NoFrame == [none |-> TRUE, rows |-> <<>>]

Frame(rows) == [none |-> FALSE, rows |-> rows]

(***************************************************************************)
(* calculate_kpis                                                          *)
(***************************************************************************)
\* Lines 41-44.
TotalOrders(df) ==
    IF HasCol(df, "_order_id") THEN NUnique(Column(df, "_order_id"))
    ELSE Num(Len(df.rows))

\* The margin without the "total_sales > 0" guard.
ProfitMargin_Unguarded(df, total_sales, total_profit) ==
    IF HasCol(df, "_profit") THEN FMul(FDiv(total_profit, total_sales), Num(100))
    ELSE Num(0)

\* Lines 36-39.
ProfitMargin(df, total_sales, total_profit) ==
    IF HasCol(df, "_profit") /\ FPos(total_sales)
    THEN FMul(FDiv(total_profit, total_sales), Num(100))
    ELSE Num(0)

\* Lines 52-53.
AvgOrderValue(total_sales, total_orders) ==
    IF FPos(total_orders) THEN FDiv(total_sales, total_orders) ELSE Num(0)

\* Lines 55-56.
AvgDiscount(df) ==
    IF HasCol(df, "_discount") THEN FMul(FMean(Column(df, "_discount")), Num(100))
    ELSE Num(0)

\* Series.sum() of a numeric canonical column, the initial 0 without it.
SumOf(df, c) == IF HasCol(df, c) THEN FSum(Column(df, c)) ELSE Num(0)

calculate_kpis(df) ==
    LET total_sales  == SumOf(df, "_sales")
        total_profit == SumOf(df, "_profit")
        total_orders == TotalOrders(df)
    IN  [total_sales     |-> total_sales,
         total_profit    |-> total_profit,
         total_orders    |-> total_orders,
         total_customers |-> IF HasCol(df, "_customer")
                             THEN NUnique(Column(df, "_customer")) ELSE Num(0),
         total_quantity  |-> SumOf(df, "_quantity"),
         avg_order_value |-> AvgOrderValue(total_sales, total_orders),
         profit_margin   |-> ProfitMargin(df, total_sales, total_profit),
         avg_discount    |-> AvgDiscount(df),
         row_count       |-> Num(Len(df.rows))]

(***************************************************************************)
(* get_return_metrics                                                      *)
(***************************************************************************)
\* df[df['_returned']]
\* Every row taken as returned.
ReturnedRows_All(df) == df

\* df[df['_returned']]
ReturnedRows(df) == Restrict(df, LAMBDA r : r["_returned"])

\* Lines 269-274: (total_orders, returned_orders).
ReturnOrders(df) ==
    IF HasCol(df, "_order_id")
    THEN <<NUnique(Column(df, "_order_id")),
           NUnique(Column(ReturnedRows(df), "_order_id"))>>
    ELSE <<Num(Len(df.rows)), CountTrue(Column(df, "_returned"))>>

get_return_metrics(df) ==
    IF ~HasCol(df, "_returned")
    THEN [total_orders |-> Num(0), returned_orders |-> Num(0), return_rate |-> Num(0),
          returned_sales |-> Num(0), returned_profit_loss |-> Num(0)]
    ELSE LET orders == ReturnOrders(df)
         IN  [total_orders         |-> orders[1],
              returned_orders      |-> orders[2],
              return_rate          |-> IF FPos(orders[1])
                                       THEN FMul(FDiv(orders[2], orders[1]), Num(100))
                                       ELSE Num(0),
              returned_sales       |-> SumOf(ReturnedRows(df), "_sales"),
              returned_profit_loss |-> SumOf(ReturnedRows(df), "_profit")]

(***************************************************************************)
(* get_breakdown                                                           *)
(***************************************************************************)
\* Line 194: (Profit / Sales * 100).round(2), unguarded.
GroupProfitMargin(profit, sales) == Round2(FMul(FDiv(profit, sales), Num(100)))

\* Line 198: (Sales / Orders).round(2).
GroupAvgOrderValue(sales, orders) == Round2(FDiv(sales, orders))

\* The columns of the breakdown: lines 165-198.
BreakdownColumns(df, col_name) ==
    {col_name, "Sales"}
      \cup (IF HasCol(df, "_profit") THEN {"Profit", "Profit Margin"} ELSE {})
      \cup (IF HasCol(df, "_quantity") THEN {"Quantity"} ELSE {})
      \cup (IF HasCol(df, "_order_id") THEN {"Orders", "Avg Order Value"} ELSE {})
      \cup (IF HasCol(df, "_customer") THEN {"Customers"} ELSE {})

\* The breakdown's row of one group g (a frame).
BreakdownRow(g, key, col_name) ==
    [x \in BreakdownColumns(g, col_name) |->
        CASE x = col_name -> key
          [] x = "Sales" -> FSum(Column(g, "_sales"))
          [] x = "Profit" -> FSum(Column(g, "_profit"))
          [] x = "Quantity" -> FSum(Column(g, "_quantity"))
          [] x = "Orders" -> NUnique(Column(g, "_order_id"))
          [] x = "Customers" -> NUnique(Column(g, "_customer"))
          [] x = "Profit Margin" ->
               GroupProfitMargin(FSum(Column(g, "_profit")), FSum(Column(g, "_sales")))
          [] x = "Avg Order Value" ->
               GroupAvgOrderValue(FSum(Column(g, "_sales")),
                                  NUnique(Column(g, "_order_id")))]

get_breakdown(df, col, col_name) ==
    IF ~HasCol(df, col) \/ ~HasCol(df, "_sales") THEN NoFrame
    ELSE LET keys == GroupKeys(df, col)
             rows == [i \in 1..Len(keys) |->
                         BreakdownRow(Group(df, col, keys[i]), keys[i], col_name)]
         IN  Frame(SortDesc(rows, "Sales"))

get_category_breakdown(df) == get_breakdown(df, "_category", "Category")

get_region_breakdown(df) == get_breakdown(df, "_region", "Region")

get_segment_breakdown(df) == get_breakdown(df, "_segment", "Segment")

(***************************************************************************)
(* calculate_monthly_metrics                                               *)
(***************************************************************************)
\* The characters of the column names of the monthly series.
Spelling ==
    ("_sales" :> <<"_", "s", "a", "l", "e", "s">>) @@
    ("_profit" :> <<"_", "p", "r", "o", "f", "i", "t">>) @@
    ("_order_id" :> <<"_", "o", "r", "d", "e", "r", "_", "i", "d">>) @@
    ("_quantity" :> <<"_", "q", "u", "a", "n", "t", "i", "t", "y">>) @@
    ("Sales" :> <<"S", "a", "l", "e", "s">>) @@
    ("Profit" :> <<"P", "r", "o", "f", "i", "t">>) @@
    ("Orderid" :> <<"O", "r", "d", "e", "r", "i", "d">>) @@
    ("Order Id" :> <<"O", "r", "d", "e", "r", " ", "I", "d">>) @@
    ("Quantity" :> <<"Q", "u", "a", "n", "t", "i", "t", "y">>)

LowerLetters == <<"a", "b", "c", "d", "e", "f", "g", "h", "i", "j", "k", "l", "m", "n", "o", "p", "q", "r", "s", "t", "u", "v", "w", "x", "y", "z">>

UpperLetters == <<"A", "B", "C", "D", "E", "F", "G", "H", "I", "J", "K", "L", "M", "N", "O", "P", "Q", "R", "S", "T", "U", "V", "W", "X", "Y", "Z">>

IsLetter(c) == \E i \in 1..26 : c = LowerLetters[i] \/ c = UpperLetters[i]

\* str.title() of one character: upper case after a non-letter, lower case
\* after a letter.
TitleChar(c, first) ==
    IF ~IsLetter(c) THEN c
    ELSE LET i == CHOOSE j \in 1..26 : c = LowerLetters[j] \/ c = UpperLetters[j]
         IN  IF first THEN UpperLetters[i] ELSE LowerLetters[i]

\* str.title()
Title(s) == [i \in 1..Len(s) |-> TitleChar(s[i], i = 1 \/ ~IsLetter(s[i - 1]))]

\* str.replace('_', '')
DropUnderscores(s) == SelectSeq(s, LAMBDA c : c # "_")

\* Line 85: c.replace('_', '').title() of an aggregated column.  The replace
\* joins the words, so '_order_id' becomes 'Orderid'.
DisplayName(c) ==
    LET shown == Title(DropUnderscores(Spelling[c]))
    IN  CHOOSE n \in DOMAIN Spelling : Spelling[n] = shown

\* Lines 86-87: rename 'Order Id' to 'Orders'.
RenameOrders(name) == IF name = "Order Id" THEN "Orders" ELSE name

\* The aggregated columns: lines 71-80.
MonthlyAggregated(df) ==
    {"_sales"} \cup {c \in {"_profit", "_order_id", "_quantity"} : HasCol(df, c)}

\* One bucket g (a frame) of the monthly series, before the changes.
MonthlyRow(g, key) ==
    LET named == {RenameOrders(DisplayName(c)) : c \in MonthlyAggregated(g)}
        src(x) == CHOOSE c \in MonthlyAggregated(g) : RenameOrders(DisplayName(c)) = x
    IN  [x \in {"Month"} \cup named |->
            IF x = "Month" THEN key
            ELSE IF src(x) = "_order_id" THEN NUnique(Column(g, "_order_id"))
            ELSE FSum(Column(g, src(x)))]

\* The change as a fraction, not a percentage.
PctChange_Fraction(rows, c, i) ==
    IF i = 1 THEN NaN ELSE FSub(FDiv(rows[i][c], rows[i - 1][c]), Num(1))

\* Series.pct_change() * 100 at place i: NaN first, then (cur / prev - 1) * 100.
PctChange(rows, c, i) ==
    IF i = 1 THEN NaN
    ELSE FMul(FSub(FDiv(rows[i][c], rows[i - 1][c]), Num(1)), Num(100))

\* Lines 92-96.
WithChanges(rows) ==
    [i \in 1..Len(rows) |->
        [x \in (DOMAIN rows[i]) \cup {"Sales Change"}
                 \cup (IF "Profit" \in DOMAIN rows[i] THEN {"Profit Change"} ELSE {}) |->
            CASE x = "Sales Change" -> PctChange(rows, "Sales", i)
              [] x = "Profit Change" -> PctChange(rows, "Profit", i)
              [] OTHER -> rows[i][x]]]

calculate_monthly_metrics(df) ==
    IF ~HasCol(df, "_year_month") \/ ~HasCol(df, "_sales") THEN NoFrame
    ELSE LET keys == GroupKeys(df, "_year_month")
             rows == [i \in 1..Len(keys) |->
                         MonthlyRow(Group(df, "_year_month", keys[i]), keys[i])]
         IN  Frame(WithChanges(SortAscStr(rows, "Month")))

(***************************************************************************)
(* get_top_items, get_top_customers                                        *)
(***************************************************************************)
\* The truncation left out.
HeadRows_All(rows, n) == rows

\* DataFrame.head(n)
HeadRows(rows, n) == SubSeq(rows, 1, IF n < Len(rows) THEN n ELSE Len(rows))

\* The columns of the ranking of get_top_items: lines 114-135.
TopItemColumns(df) ==
    {"Name", "Sales"}
      \cup (IF HasCol(df, "_profit") THEN {"Profit"} ELSE {})
      \cup (IF HasCol(df, "_quantity") THEN {"Quantity"} ELSE {})
      \cup (IF HasCol(df, "_order_id") THEN {"Orders"} ELSE {})

\* The ranking's row of one group g (a frame).
TopItemRow(g, key) ==
    [x \in TopItemColumns(g) |->
        CASE x = "Name" -> key
          [] x = "Sales" -> FSum(Column(g, "_sales"))
          [] x = "Profit" -> FSum(Column(g, "_profit"))
          [] x = "Quantity" -> FSum(Column(g, "_quantity"))
          [] x = "Orders" -> NUnique(Column(g, "_order_id"))]

\* The ranking always by Sales.
SortCol_Sales(df, by) == "Sales"

\* Line 137: by if by in items.columns else 'Sales'.
SortCol(df, by) == IF by \in TopItemColumns(df) THEN by ELSE "Sales"

get_top_items(df, group_col, n, by) ==
    IF ~HasCol(df, group_col) \/ ~HasCol(df, "_sales") THEN NoFrame
    ELSE LET keys == GroupKeys(df, group_col)
             rows == [i \in 1..Len(keys) |->
                         TopItemRow(Group(df, group_col, keys[i]), keys[i])]
         IN  Frame(HeadRows(SortDesc(rows, SortCol(df, by)), n))

\* The columns of the ranking of get_top_customers: lines 208-228.
TopCustomerColumns(df) ==
    {"Customer", "Sales"}
      \cup (IF HasCol(df, "_profit") THEN {"Profit"} ELSE {})
      \cup (IF HasCol(df, "_order_id") THEN {"Orders"} ELSE {})
      \cup (IF HasCol(df, "_quantity") THEN {"Items"} ELSE {})

TopCustomerRow(g, key) ==
    [x \in TopCustomerColumns(g) |->
        CASE x = "Customer" -> key
          [] x = "Sales" -> FSum(Column(g, "_sales"))
          [] x = "Profit" -> FSum(Column(g, "_profit"))
          [] x = "Orders" -> NUnique(Column(g, "_order_id"))
          [] x = "Items" -> FSum(Column(g, "_quantity"))]

get_top_customers(df, n) ==
    IF ~HasCol(df, "_customer") \/ ~HasCol(df, "_sales") THEN NoFrame
    ELSE LET keys == GroupKeys(df, "_customer")
             rows == [i \in 1..Len(keys) |->
                         TopCustomerRow(Group(df, "_customer", keys[i]), keys[i])]
         IN  Frame(HeadRows(SortDesc(rows, "Sales"), n))

(***************************************************************************)
(* calculate_repeat_customers                                              *)
(***************************************************************************)
\* A customer counted as repeating from the first order.
CustomerOrders_PlusOne(g) == Len(g.rows) + 1

\* Lines 243-247: the order count of one customer g (a frame).
CustomerOrders(g) ==
    IF HasCol(g, "_order_id") THEN Cardinality(Range(Column(g, "_order_id")))
    ELSE Len(g.rows)

\* (total_customers, repeat_customers, repeat_rate)
calculate_repeat_customers(df) ==
    IF ~HasCol(df, "_customer") THEN <<Num(0), Num(0), Num(0)>>
    ELSE LET keys   == GroupKeys(df, "_customer")
             total  == Len(keys)
             repeat_customers ==
                 Cardinality({i \in 1..total :
                                 CustomerOrders(Group(df, "_customer", keys[i])) >= 2})
         IN  <<Num(total), Num(repeat_customers),
               IF total > 0 THEN FMul(FDiv(Num(repeat_customers), Num(total)), Num(100))
               ELSE Num(0)>>

(***************************************************************************)
(* get_items_by_return_rate                                                *)
(***************************************************************************)
\* The columns of the ranking: lines 293-319.
ReturnRateColumns(df, col_name) ==
    {col_name, "Returns", "Total Orders", "Return Rate"}
      \cup (IF HasCol(df, "_sales") THEN {"Sales"} ELSE {})
      \cup (IF HasCol(df, "_profit") THEN {"Profit"} ELSE {})

\* Lines 295-296, 316-317: the group's distinct orders, else its rows.
GroupTotalOrders(g) ==
    IF HasCol(g, "_order_id") THEN NUnique(Column(g, "_order_id")) ELSE Num(Len(g.rows))

ReturnRateRow(g, key, col_name) ==
    [x \in ReturnRateColumns(g, col_name) |->
        CASE x = col_name -> key
          [] x = "Returns" -> CountTrue(Column(g, "_returned"))
          [] x = "Total Orders" -> GroupTotalOrders(g)
          [] x = "Sales" -> FSum(Column(g, "_sales"))
          [] x = "Profit" -> FSum(Column(g, "_profit"))
          [] x = "Return Rate" ->
               Round2(FMul(FDiv(CountTrue(Column(g, "_returned")), GroupTotalOrders(g)),
                           Num(100)))]

\* The groups without a return kept.
WithReturns_All(rows) == rows

\* Line 322: items[items['Returns'] > 0]
WithReturns(rows) == SelectSeq(rows, LAMBDA r : FPos(r["Returns"]))

get_items_by_return_rate(df, group_col, col_name, n) ==
    IF ~HasCol(df, group_col) \/ ~HasCol(df, "_returned") THEN NoFrame
    ELSE LET keys == GroupKeys(df, group_col)
             rows == [i \in 1..Len(keys) |->
                         ReturnRateRow(Group(df, group_col, keys[i]), keys[i], col_name)]
         IN  Frame(HeadRows(SortDesc(WithReturns(rows), "Return Rate"), n))

(***************************************************************************)
(* The inputs: an uploaded file, a column mapping and a filter selection.  *)
(***************************************************************************)
\* The columns of the uploaded file.
RawCols == <<"when", "amount", "gain", "name", "ref", "flag">>

\* The raw column each role is mapped to when it is mapped.
Natural(role) ==
    CASE role = "date" -> "when"
      [] role \in {"sales", "quantity"} -> "amount"
      [] role \in {"profit", "discount"} -> "gain"
      [] role \in {"category", "region", "segment", "product"} -> "name"
      [] role \in {"customer", "order_id"} -> "ref"
      [] role = "returned" -> "flag"

\* The mapping Home.py stores: every role a key, None for an unmapped one.
MappingOf(M) == [r \in Roles |-> IF r \in M THEN Natural(r) ELSE None]

\* The mappings that map the roles of Fixed and any of the roles of Vary.
Mappings(Vary, Fixed) == {MappingOf(M \cup Fixed) : M \in SUBSET Vary}

\* The files of at most MaxRows rows drawn from Rows.
Files(Rows) == {[cols |-> RawCols, rows |-> r] : r \in SeqsUpTo(Rows, MaxRows)}

Chars3(a, b, c) == <<a, b, c>>

S_A == <<"A">>

S_B == <<"B">>

S_abc == <<"a", "b", "c">>

\* "2024-MM-DD HH:00"
Stamp(mm, dd, hh) ==
    <<"2", "0", "2", "4", "-">> \o Pad2(mm) \o <<"-">> \o Pad2(dd) \o <<" ">>
        \o Pad2(hh) \o <<":", "0", "0">>

\* "2024-MM-DD HH:00-0H:00", a timestamp with a UTC offset west of Greenwich.
StampWest(mm, dd, hh, off) == Stamp(mm, dd, hh) \o <<"-">> \o Pad2(off) \o <<":", "0", "0">>

Jan31 == StrC(Stamp(1, 31, 0))

Jan31Noon == StrC(Stamp(1, 31, 12))

Feb01 == StrC(Stamp(2, 1, 0))

\* A row of the file whose cells are not under study.
PlainRow ==
    [when |-> Jan31, amount |-> IntC(1), gain |-> IntC(1), name |-> StrC(S_A),
     ref |-> StrC(S_A), flag |-> StrC(<<"n", "o">>)]

\* No filter set.
NoSelection ==
    [start_date |-> NoDate, end_date |-> NoDate, categories |-> NoList,
     regions |-> NoList, segments |-> NoList]

\* The default of the parameter n and of the pages' sliders.
DefaultN == 10

\* What a ranking is asked for: the n and the by of get_top_items, the n of
\* get_top_customers and of get_items_by_return_rate.
DefaultAsk == [n |-> DefaultN, by |-> "Sales"]

(***************************************************************************)
(* The session of Home.py and of the pages: st.session_state (data,        *)
(* column_mapping, file_name), the file the uploader holds, the script     *)
(* that runs, the picks of the sidebar and the interaction that started    *)
(* the run.                                                                *)
(***************************************************************************)
\* st.session_state.data: None, or the frame of the file read last.
NoData == [none |-> TRUE, df |-> [cols |-> <<>>, rows |-> <<>>]]

Loaded(df) == [none |-> FALSE, df |-> df]

\* {}
EmptyDict == [role \in {} |-> None]

\* dict.get(key)
Get(m, key) == IF key \in DOMAIN m THEN m[key] ELSE None

\* What st.file_uploader holds: nothing, or a file that can be read or not.
NoUpload == [none |-> TRUE, name |-> None, readable |-> FALSE, df |-> NoData.df]

Upload(name, readable, df) == [none |-> FALSE, name |-> name, readable |-> readable, df |-> df]

\* The scripts, and the aggregator functions each of them calls.
Scripts == {"Home", "Overview", "Customers", "Returns"}

CallsOf(s) ==
    CASE s = "Home" ->
           {"calculate_kpis", "calculate_monthly_metrics", "get_category_breakdown",
            "get_region_breakdown", "get_top_items", "calculate_repeat_customers",
            "get_top_customers", "get_return_metrics", "get_items_by_return_rate"}
      [] s = "Overview" ->
           {"calculate_kpis", "calculate_monthly_metrics", "get_category_breakdown",
            "get_region_breakdown", "get_top_items"}
      [] s = "Customers" ->
           {"calculate_kpis", "calculate_repeat_customers", "get_segment_breakdown",
            "get_top_customers", "get_region_breakdown"}
      [] s = "Returns" ->
           {"get_return_metrics", "get_items_by_return_rate", "calculate_monthly_metrics"}

\* The filters the sidebar of a script has.
WidgetsOf(s) ==
    CASE s \in {"Home", "Overview"} -> {"dates", "categories", "regions", "segments"}
      [] s = "Customers" -> {"dates", "regions", "segments"}
      [] s = "Returns" -> {"dates", "categories", "regions"}

\* The warnings and notes a run ends on, and the kind of each: st.warning,
\* st.info, or the "How it works" banner of Home.py line 365.
NoticeKind(n) ==
    CASE n \in {"no_data", "no_sales", "no_rows"} -> "warning"
      [] n = "no_customer" -> "info"
      [] n = "how_it_works" -> "banner"
      [] OTHER -> None

\* The state before the pipeline runs.
InitAsking(files, mappings, selections, callers, asks) ==
    /\ raw \in files
    /\ mapping \in mappings
    /\ selection \in selections
    /\ caller \in callers
    /\ ask \in asks
    /\ pc = "start"
    /\ prepared = None
    /\ options = None
    /\ filtered = None
    /\ kpis = None
    /\ retm = None
    /\ breakdown = None
    /\ monthly = None
    /\ top_items = None
    /\ repeat = None
    /\ top_customers = None
    /\ return_items = None
    /\ data = Loaded(raw)
    /\ column_mapping = mapping
    /\ file_name = "data.csv"
    /\ uploaded_file = NoUpload
    /\ script = "Home"
    /\ picks = selection
    /\ event = "none"
    /\ notice = None
    /\ invoked = {}

\* The same with the rankings asked for by default.
InitWith(files, mappings, selections, callers) ==
    InitAsking(files, mappings, selections, callers, {DefaultAsk})


(***************************************************************************)
(* The pipeline of Home.py lines 442-602 and of the pages.                 *)
(***************************************************************************)
\* The steps in their order; a run ends out of them at "KeyError" and
\* "raised", by an exception of prepare_data and of filter_data, and at
\* "stopped", by a return or an st.stop() of the script.
Steps ==
    <<"start", "prepared", "options", "filtered", "kpis", "monthly", "breakdown",
      "top_items", "repeat", "top_customers", "returns", "done">>

StepNo(p) ==
    IF p \in {"raised", "stopped", "KeyError"} THEN 0
    ELSE CHOOSE i \in 1..Len(Steps) : Steps[i] = p

\* The pipeline has reached step p.
Reached(p) == StepNo(pc) >= StepNo(p)

\* Home.py lines 434-438: the page goes no further without a sales column.
SalesGate == caller = "page" /\ ~Mapped(mapping, "sales")

\* The gate left open.
EmptyGate_Open(view) == FALSE

\* Home.py lines 466-468: the page goes no further with an empty view.
EmptyGate(view) == caller = "page" /\ view.rows = <<>>

\* Customers.py lines 71-81: the page goes no further without a customer.
CustomerGate(opts) == caller = "page" /\ script = "Customers" /\ ~opts.has_customer

PrepareData ==
    /\ pc = "start"
    /\ IF SalesGate
       THEN /\ pc' = "stopped" /\ notice' = "no_sales" /\ picks' = NoSelection
            /\ UNCHANGED <<prepared, raw>>
       ELSE IF prepare_data_raises(raw, mapping)
       THEN pc' = "KeyError" /\ UNCHANGED <<prepared, raw, notice, picks>>
       ELSE /\ pc' = "prepared"
            /\ prepared' = prepare_data(raw, mapping)
            /\ raw' = InputAfterPrepare(raw, mapping)
            /\ UNCHANGED <<notice, picks>>
    /\ UNCHANGED <<ask, top_items, repeat, top_customers, return_items>>
    /\ UNCHANGED <<mapping, selection, caller, options, filtered, kpis, retm, breakdown, monthly>>
    /\ UNCHANGED <<stored, widgets, invoked>>

GetFilterOptions ==
    /\ pc = "prepared"
    /\ options' = get_filter_options(prepared)
    /\ IF CustomerGate(options')
       THEN pc' = "stopped" /\ notice' = "no_customer" /\ picks' = NoSelection
       ELSE pc' = "options" /\ UNCHANGED <<notice, picks>>
    /\ UNCHANGED <<ask, top_items, repeat, top_customers, return_items>>
    /\ UNCHANGED <<raw, mapping, selection, caller, prepared, filtered, kpis, retm, breakdown, monthly>>
    /\ UNCHANGED <<stored, widgets, invoked>>

\* A calendar day from the day of min_date to the day of max_date.
InRange(opts, day) ==
    /\ day.k # "none"
    /\ TimeKey(Midnight(opts.min_date)) <= TimeKey(Midnight(day))
    /\ TimeKey(Midnight(day)) <= TimeKey(Midnight(opts.max_date))

\* One multiselect: absent where the script has no such widget or the domain
\* is empty; every value of the domain until the user picks; the picked
\* values of the domain after.
Multiselect(shown, domain, pick) ==
    IF ~shown \/ Len(domain) = 0 THEN NoList
    ELSE IF pick.none THEN List(domain)
    ELSE List(SelectSeq(pick.vals, LAMBDA v : v \in Range(domain)))

\* Home.py lines 445-462: the selection the sidebar of script s passes to
\* filter_data.  st.date_input gives calendar days, the days of min_date
\* and max_date until the user picks others.
Sidebar(s, opts, p) ==
    LET dated == "dates" \in WidgetsOf(s) /\ opts.has_date /\ opts.min_date.k # "none"
    IN  [start_date |-> IF ~dated THEN NoDate
                        ELSE IF InRange(opts, p.start_date) THEN p.start_date
                        ELSE DateOf(opts.min_date),
         end_date   |-> IF ~dated THEN NoDate
                        ELSE IF InRange(opts, p.end_date) THEN p.end_date
                        ELSE DateOf(opts.max_date),
         categories |-> Multiselect("categories" \in WidgetsOf(s) /\ opts.has_category,
                                    opts.categories, p.categories),
         regions    |-> Multiselect("regions" \in WidgetsOf(s) /\ opts.has_region,
                                    opts.regions, p.regions),
         segments   |-> Multiselect("segments" \in WidgetsOf(s) /\ opts.has_segment,
                                    opts.segments, p.segments)]

\* What filter_data is called with: the sidebar's selection on a page, the
\* arguments of the call otherwise.
Chosen == IF caller = "page" THEN Sidebar(script, options, picks) ELSE selection

FilterData ==
    /\ pc = "options"
    /\ selection' = Chosen
    /\ IF filter_data_raises(prepared, selection')
       THEN pc' = "raised" /\ UNCHANGED <<filtered, prepared, notice>>
       ELSE /\ filtered' = filter_data(prepared, selection')
            /\ prepared' = InputAfterFilter(prepared, selection')
            /\ IF EmptyGate(filtered')
               THEN pc' = "stopped" /\ notice' = "no_rows"
               ELSE pc' = "filtered" /\ UNCHANGED notice
    /\ UNCHANGED <<ask, top_items, repeat, top_customers, return_items>>
    /\ UNCHANGED <<raw, mapping, caller, options, kpis, retm, breakdown, monthly>>
    /\ UNCHANGED <<session, invoked>>

\* The script calls the function: every function is called on its own.
Runs(fn) == caller = "call" \/ fn \in CallsOf(script)

\* Home.py lines 498, 512, 514, 583: the page calls a function of a role only
\* under the role's has_* flag; called on its own it runs on any view.
Called(flag) == caller = "call" \/ options[flag]

\* The functions of fns have been called.
Invoke(fns) == invoked' = invoked \cup fns

CalculateKpis ==
    /\ pc = "filtered"
    /\ IF Runs("calculate_kpis")
       THEN kpis' = calculate_kpis(filtered) /\ Invoke({"calculate_kpis"})
       ELSE UNCHANGED <<kpis, invoked>>
    /\ pc' = "kpis"
    /\ UNCHANGED <<ask, top_items, repeat, top_customers, return_items>>
    /\ UNCHANGED <<raw, mapping, selection, caller, prepared, options, filtered, retm, breakdown, monthly>>
    /\ UNCHANGED <<session, notice>>

CalculateMonthlyMetrics ==
    /\ pc = "kpis"
    /\ IF Runs("calculate_monthly_metrics") /\ Called("has_date")
       THEN /\ monthly' = calculate_monthly_metrics(filtered)
            /\ Invoke({"calculate_monthly_metrics"})
       ELSE UNCHANGED <<monthly, invoked>>
    /\ pc' = "monthly"
    /\ UNCHANGED <<ask, top_items, repeat, top_customers, return_items>>
    /\ UNCHANGED <<raw, mapping, selection, caller, prepared, options, filtered, kpis, retm, breakdown>>
    /\ UNCHANGED <<session, notice>>

\* The breakdowns the script calls under their has_* flags.
BreakdownCalls ==
    {fn \in {"get_category_breakdown", "get_region_breakdown", "get_segment_breakdown"} :
        /\ Runs(fn)
        /\ Called(CASE fn = "get_category_breakdown" -> "has_category"
                    [] fn = "get_region_breakdown" -> "has_region"
                    [] fn = "get_segment_breakdown" -> "has_segment")}

GetBreakdowns ==
    /\ pc = "monthly"
    /\ breakdown' =
         [category |-> IF "get_category_breakdown" \in BreakdownCalls
                       THEN get_category_breakdown(filtered) ELSE None,
          region   |-> IF "get_region_breakdown" \in BreakdownCalls
                       THEN get_region_breakdown(filtered) ELSE None,
          segment  |-> IF "get_segment_breakdown" \in BreakdownCalls
                       THEN get_segment_breakdown(filtered) ELSE None]
    /\ Invoke(BreakdownCalls)
    /\ pc' = "breakdown"
    /\ UNCHANGED <<ask, top_items, repeat, top_customers, return_items>>
    /\ UNCHANGED <<raw, mapping, selection, caller, prepared, options, filtered, kpis, retm, monthly>>
    /\ UNCHANGED <<session, notice>>

GetTopItems ==
    /\ pc = "breakdown"
    /\ IF Runs("get_top_items") /\ Called("has_product")
       THEN /\ top_items' = get_top_items(filtered, "_product", ask.n, ask.by)
            /\ Invoke({"get_top_items"})
       ELSE UNCHANGED <<top_items, invoked>>
    /\ pc' = "top_items"
    /\ UNCHANGED <<raw, mapping, selection, caller, prepared, options, filtered, kpis, retm,
                   breakdown, monthly, ask, repeat, top_customers, return_items>>
    /\ UNCHANGED <<session, notice>>

CalculateRepeatCustomers ==
    /\ pc = "top_items"
    /\ IF Runs("calculate_repeat_customers") /\ Called("has_customer")
       THEN /\ repeat' = calculate_repeat_customers(filtered)
            /\ Invoke({"calculate_repeat_customers"})
       ELSE UNCHANGED <<repeat, invoked>>
    /\ pc' = "repeat"
    /\ UNCHANGED <<raw, mapping, selection, caller, prepared, options, filtered, kpis, retm,
                   breakdown, monthly, ask, top_items, top_customers, return_items>>
    /\ UNCHANGED <<session, notice>>

GetTopCustomers ==
    /\ pc = "repeat"
    /\ IF Runs("get_top_customers") /\ Called("has_customer")
       THEN /\ top_customers' = get_top_customers(filtered, ask.n)
            /\ Invoke({"get_top_customers"})
       ELSE UNCHANGED <<top_customers, invoked>>
    /\ pc' = "top_customers"
    /\ UNCHANGED <<raw, mapping, selection, caller, prepared, options, filtered, kpis, retm,
                   breakdown, monthly, ask, top_items, repeat, return_items>>
    /\ UNCHANGED <<session, notice>>

GetReturnMetrics ==
    /\ pc = "top_customers"
    /\ IF Runs("get_return_metrics") /\ Called("has_returned")
       THEN /\ retm' = get_return_metrics(filtered)
            /\ Invoke({"get_return_metrics"})
       ELSE UNCHANGED <<retm, invoked>>
    /\ pc' = "returns"
    /\ UNCHANGED <<ask, top_items, repeat, top_customers, return_items>>
    /\ UNCHANGED <<raw, mapping, selection, caller, prepared, options, filtered, kpis, breakdown, monthly>>
    /\ UNCHANGED <<session, notice>>

GetItemsByReturnRate ==
    /\ pc = "returns"
    /\ IF /\ Runs("get_items_by_return_rate") /\ Called("has_returned")
          /\ Called("has_product") \/ (script = "Returns" /\ options.has_category)
       THEN /\ return_items' = IF Called("has_product")
                                 THEN get_items_by_return_rate(filtered, "_product", "Product", ask.n)
                                 ELSE return_items
            /\ Invoke({"get_items_by_return_rate"})
       ELSE UNCHANGED <<return_items, invoked>>
    /\ pc' = "done"
    /\ UNCHANGED <<raw, mapping, selection, caller, prepared, options, filtered, kpis, retm,
                   breakdown, monthly, ask, top_items, repeat, top_customers>>
    /\ UNCHANGED <<session, notice>>

Next ==
    \/ PrepareData
    \/ GetFilterOptions
    \/ FilterData
    \/ CalculateKpis
    \/ CalculateMonthlyMetrics
    \/ GetBreakdowns
    \/ GetTopItems
    \/ CalculateRepeatCustomers
    \/ GetTopCustomers
    \/ GetReturnMetrics
    \/ GetItemsByReturnRate

(***************************************************************************)
(* The interactions of a session: each one starts a run of the script on   *)
(* screen, which reads the session, stores what Home.py stores, and stops  *)
(* or hands the dataset and the mapping to the pipeline above.             *)
(***************************************************************************)
\* The calendar days st.date_input can return here.
Jan31Day == DateOf(ParseDateStr(Stamp(1, 31, 0)))

Feb01Day == DateOf(ParseDateStr(Stamp(2, 1, 0)))

\* What the user picks in the sidebar: nothing, a day, or a category.
SidebarPicks ==
    {NoSelection,
     [NoSelection EXCEPT !.start_date = Feb01Day],
     [NoSelection EXCEPT !.categories = List(<<S_B>>)]}

\* A column of dtype object: it holds a string.
IsObject(df, c) == \E i \in 1..Len(df.rows) : df.rows[i][c].k = "str"

\* pd.to_datetime(df[col].head(100), errors='raise') does not raise on a
\* column of strings and nulls: every string is a date of the column's format.
ParsesAsDates(df, c) ==
    LET cells == Column(df, c)
    IN  /\ ColumnFormat(cells) # "none"
        /\ \A i \in 1..Len(cells) :
              cells[i].k = "str" => DateFormat(cells[i].s) = ColumnFormat(cells)

\* detect_column_types: the date columns and the numeric columns, in the
\* order of the file.
DateCols(df) == SelectSeq(df.cols, LAMBDA c : IsObject(df, c) /\ ParsesAsDates(df, c))

NumericCols(df) == SelectSeq(df.cols, LAMBDA c : ~IsObject(df, c))

\* The columns a role's selectbox offers beside "None".
Options(df, role) == IF role \in NumericRoles THEN NumericCols(df) ELSE df.cols

\* The selectboxes of a Home run are those of the run before: the mapping
\* stored by that run is what they show.
Alive == script = "Home" /\ ~data.none /\ column_mapping # EmptyDict

\* Lines 381-385 and 390: the entry a new selectbox starts on, the stored
\* column when it is offered, and for the date the first date column.
IndexOf(df, cm, role) ==
    LET v == Get(cm, role)
    IN  IF v # None /\ v \in Range(Options(df, role)) THEN v
        ELSE IF role = "date" /\ Len(DateCols(df)) > 0 THEN DateCols(df)[1]
        ELSE None

\* Lines 388-430: the mapping a Home run stores: for each role what the user
\* picks in this run, else what its selectbox showed, else what a new
\* selectbox starts on.  No selectbox looks at another.
Selectboxes(df, cm, alive, pick) ==
    [role \in Roles |->
        IF role \in DOMAIN pick THEN pick[role]
        ELSE IF alive /\ (cm[role] = None \/ cm[role] \in Range(Options(df, role)))
        THEN cm[role]
        ELSE IndexOf(df, cm, role)]

\* No selectbox touched.
NoPick == EmptyDict

\* A run starts: nothing computed, nothing invoked.
Fresh ==
    /\ prepared' = None
    /\ options' = None
    /\ filtered' = None
    /\ kpis' = None
    /\ retm' = None
    /\ breakdown' = None
    /\ monthly' = None
    /\ top_items' = None
    /\ repeat' = None
    /\ top_customers' = None
    /\ return_items' = None
    /\ invoked' = {}
    /\ caller' = "page"
    /\ ask' = DefaultAsk
    /\ selection' = NoSelection

\* The run stops before its sidebar: the sidebar's widgets are gone.
StopRun(why) ==
    /\ pc' = "stopped"
    /\ notice' = why
    /\ picks' = NoSelection
    /\ raw' = NoData.df
    /\ mapping' = MappingOf({})

\* The dataset and the mapping go to the pipeline.
StartPipeline(df, cm, p) ==
    /\ pc' = "start"
    /\ notice' = None
    /\ picks' = p
    /\ raw' = df
    /\ mapping' = [role \in Roles |-> Get(cm, role)]

\* Home.py lines 320-442, a run of main from a session holding d, cm and fn,
\* with the uploader holding up, the user having picked pick in the
\* selectboxes and p in the sidebar.
HomeRun(d, cm, fn, alive, up, pick, p) ==
    LET read == ~up.none /\ up.readable
        d1 == IF read THEN Loaded(up.df) ELSE d
    IN  /\ Fresh
        /\ script' = "Home"
        /\ uploaded_file' = up
        /\ data' = d1
        /\ file_name' = IF read THEN up.name ELSE fn
        /\ IF d1.none
           THEN column_mapping' = cm /\ StopRun("how_it_works")
           ELSE /\ column_mapping' = Selectboxes(d1.df, cm, alive, pick)
                /\ StartPipeline(d1.df, column_mapping', p)

\* The pages, lines 56-60: get_data_and_mapping and the first gate.
PageRun(s, p) ==
    /\ Fresh
    /\ script' = s
    /\ uploaded_file' = NoUpload
    /\ UNCHANGED stored
    /\ IF data.none
       THEN StopRun("no_data")
       ELSE StartPipeline(data.df, column_mapping, p)

\* The script on screen runs again.
RunAgain(up, pick, p) ==
    IF script = "Home"
    THEN HomeRun(data, column_mapping, file_name, Alive, up, pick, p)
    ELSE PageRun(script, p)

\* The run on screen is over.
Ended == pc \in {"done", "stopped", "raised", "KeyError"}

\* The files of the session: one whose default view has a row, one whose
\* default view has none, and one that cannot be read.
SessionUploads ==
    {Upload("a.csv", TRUE,
            [cols |-> RawCols,
             rows |-> <<PlainRow, [PlainRow EXCEPT !.when = Jan31Noon, !.name = StrC(S_B)]>>]),
     Upload("b.csv", TRUE,
            [cols |-> RawCols, rows |-> <<[PlainRow EXCEPT !.when = Jan31Noon]>>]),
     Upload("c.xls", FALSE, NoData.df)}

\* The roles whose selectbox the user changes here.
PickedRoles == {"sales", "category", "product", "customer"}

\* The user drops a file on the uploader (lines 331-351).
UploadFile(up) ==
    /\ Ended /\ script = "Home"
    /\ event' = IF up.readable THEN "upload" ELSE "upload_failed"
    /\ HomeRun(data, column_mapping, file_name, Alive, up, NoPick, picks)

\* The user takes the file out of the uploader.
RemoveUpload ==
    /\ Ended /\ script = "Home" /\ ~uploaded_file.none
    /\ event' = "remove"
    /\ HomeRun(data, column_mapping, file_name, Alive, NoUpload, NoPick, picks)

\* The button leaves the mapping as it is.
Cleared_KeepsMapping == [data |-> NoData, column_mapping |-> column_mapping, file_name |-> None]

\* Lines 358-360: what "Clear & upload new" stores.
Cleared == [data |-> NoData, column_mapping |-> EmptyDict, file_name |-> None]

\* Lines 353-362: the button is there without a file in the uploader and
\* with a dataset in the session; st.rerun() runs main again.
ClearData ==
    /\ Ended /\ script = "Home" /\ uploaded_file.none /\ ~data.none
    /\ event' = "clear"
    /\ HomeRun(Cleared.data, Cleared.column_mapping, Cleared.file_name, FALSE,
               NoUpload, NoPick, NoSelection)

\* The user changes one selectbox of Home (lines 388-415).
SelectColumn(role, col) ==
    /\ Ended /\ Alive
    /\ col = None \/ col \in Range(Options(data.df, role))
    /\ event' = "select"
    /\ HomeRun(data, column_mapping, file_name, Alive, uploaded_file, (role :> col), picks)

\* The user changes the sidebar of the script on screen.
ChangeFilter(p) ==
    /\ Ended /\ (Reached("filtered") \/ notice = "no_rows")
    /\ event' = "filter"
    /\ RunAgain(uploaded_file, NoPick, p)

\* The user opens another script: the widgets of the one on screen are gone.
OpenPage(s) ==
    /\ Ended /\ s # script
    /\ event' = "open"
    /\ IF s = "Home"
       THEN HomeRun(data, column_mapping, file_name, FALSE, NoUpload, NoPick, NoSelection)
       ELSE PageRun(s, NoSelection)

\* The script runs again with its widgets as they are.
Rerun ==
    /\ Ended
    /\ event' = "rerun"
    /\ RunAgain(uploaded_file, NoPick, picks)

NextSession ==
    \/ \E up \in SessionUploads : UploadFile(up)
    \/ RemoveUpload
    \/ ClearData
    \/ \E role \in PickedRoles : \E col \in {None, Natural(role)} : SelectColumn(role, col)
    \/ \E p \in SidebarPicks : ChangeFilter(p)
    \/ \E s \in Scripts : OpenPage(s)
    \/ Rerun
    \/ Next

\* A new session, after the first run of Home.py (lines 320-325, 364-371).
InitSession ==
    /\ data = NoData
    /\ column_mapping = EmptyDict
    /\ file_name = None
    /\ uploaded_file = NoUpload
    /\ script = "Home"
    /\ picks = NoSelection
    /\ event = "none"
    /\ caller = "page"
    /\ pc = "stopped"
    /\ notice = "how_it_works"
    /\ raw = NoData.df
    /\ mapping = MappingOf({})
    /\ selection = NoSelection
    /\ ask = DefaultAsk
    /\ invoked = {}
    /\ prepared = None
    /\ options = None
    /\ filtered = None
    /\ kpis = None
    /\ retm = None
    /\ breakdown = None
    /\ monthly = None
    /\ top_items = None
    /\ repeat = None
    /\ top_customers = None
    /\ return_items = None

SpecSession == InitSession /\ [][NextSession]_vars

(***************************************************************************)
(* The normaliser on its own inputs: files whose date column holds nulls,  *)
(* timestamps and timestamps with UTC offsets, under any mapping of at     *)
(* most MaxMapped roles; files whose numeric columns hold numbers, text    *)
(* and nulls; files whose flag column holds the spellings of yes and no.   *)
(***************************************************************************)
WestA == StrC(StampWest(3, 9, 12, 5))

WestB == StrC(StampWest(3, 10, 12, 4))

DateCells == {Null, StrC(S_abc), Jan31Noon, WestA, WestB}

NumericCells ==
    {Null, IntC(0), IntC(3), IntC(-2), BoolC(TRUE), StrC(<<"1", "2">>),
     StrC(<<"1", ".", "5">>), StrC(S_abc), StrC(<<>>)}

FlagCells ==
    {Null, IntC(1), FloatC(1), BoolC(TRUE), StrC(<<"1">>), StrC(<<"y", "e", "s">>),
     StrC(<<"Y", "e", "s">>), StrC(<<"T", "R", "U", "E">>),
     StrC(<<"R", "e", "t", "u", "r", "n", "e", "d">>), StrC(<<"n", "o">>),
     StrC(<<" ", "y", "e", "s">>), StrC(<<>>)}

InitColumns ==
    InitWith(Files({[PlainRow EXCEPT !.when = c] : c \in DateCells}),
             {MappingOf(M) : M \in {N \in SUBSET Roles : Cardinality(N) <= MaxMapped}},
             {NoSelection}, {"call"})

InitNumeric ==
    InitWith(Files({[PlainRow EXCEPT !.amount = c, !.gain = c] : c \in NumericCells}),
             Mappings(NumericRoles, {}),
             {NoSelection}, {"call"})

InitReturned ==
    InitWith(Files({[PlainRow EXCEPT !.flag = c] : c \in FlagCells}),
             Mappings({"returned"}, {}),
             {NoSelection}, {"call"})

\* Cells of a category-like column: null, empty, text and a number.
NameCells == {Null, StrC(<<>>), StrC(S_A), StrC(S_B), IntC(3)}

InitDomains ==
    InitWith(Files({[PlainRow EXCEPT !.name = c] : c \in NameCells}),
             Mappings({"category", "region", "segment"}, {}),
             {NoSelection}, {"call"})

\* Files that have a column of their own named like a canonical column,
\* "_profit", next to the columns of RawCols.
ReservedFiles ==
    {[cols |-> Append(RawCols, "_profit"),
      rows |-> [i \in 1..Len(r) |->
                  [c \in Range(RawCols) \cup {"_profit"} |->
                      IF c = "_profit" THEN r[i].own
                      ELSE IF c = "amount" THEN r[i].amount
                      ELSE PlainRow[c]]]] :
        r \in SeqsUpTo([amount : {IntC(1), StrC(S_abc)}, own : {IntC(5), StrC(S_A)}],
                       MaxRows)}

\* The revenue read from "amount" or from the file's own "_profit"; the
\* profit role is mapped, so that the aggregator finds numbers in _profit.
ReservedMappings ==
    {[MappingOf(M \cup {"profit"}) EXCEPT !["sales"] = s] :
        M \in SUBSET {"category", "customer"}, s \in {"amount", "_profit"}}

InitReserved == InitWith(ReservedFiles, ReservedMappings, {NoSelection}, {"call"})

InitNormalize == InitColumns \/ InitNumeric \/ InitReturned \/ InitDomains \/ InitReserved

SpecNormalize == InitNormalize /\ [][Next]_vars

\* prepare_data has returned.
Prepared == Reached("prepared")

\* get_filter_options has returned.
HasOptions == Reached("options")

\* The has_* flag of a role (sales and date parts have none).
HasFlag(role) ==
    CASE role = "date" -> options.has_date [] role = "category" -> options.has_category
      [] role = "region" -> options.has_region [] role = "segment" -> options.has_segment
      [] role = "profit" -> options.has_profit [] role = "quantity" -> options.has_quantity
      [] role = "customer" -> options.has_customer [] role = "order_id" -> options.has_order_id
      [] role = "product" -> options.has_product [] role = "returned" -> options.has_returned
      [] role = "discount" -> options.has_discount

\* C1: after prepare_data the canonical column of a role (and, for date, each
\* of _year, _month, _year_month, _quarter) exists if and only if the role is
\* mapped, and every has_* flag of get_filter_options is true exactly when its
\* role is mapped.
C1_ColumnsIffMapped ==
    /\ Prepared =>
         /\ \A role \in Roles : HasCol(prepared, Canon(role)) <=> Mapped(mapping, role)
         /\ \A c \in DateParts : HasCol(prepared, c) <=> Mapped(mapping, "date")
    /\ HasOptions =>
         \A role \in Roles \ {"sales"} : HasFlag(role) <=> Mapped(mapping, role)

\* The number each cell of NumericCells denotes, 0 for the cells that denote none.
DenotedNumber(c) ==
    CASE c.k \in {"int", "float", "bool"} -> Num(c.n)
      [] c = StrC(<<"1", "2">>) -> Num(12)
      [] c = StrC(<<"1", ".", "5">>) -> [t |-> "fin", n |-> 3, d |-> 2]
      [] OTHER -> Num(0)

\* C2: for every row and every mapped numeric role, a null or unparseable
\* source value gives the canonical value 0, a parseable one gives its number,
\* and prepare_data returns as many rows as the file has.
C2_NumericCoercion ==
    Prepared =>
      /\ Len(prepared.rows) = Len(raw.rows)
      /\ \A role \in NumericRoles : Mapped(mapping, role) =>
           \A i \in 1..Len(raw.rows) :
              prepared.rows[i][Canon(role)] = DenotedNumber(raw.rows[i][mapping[role]])

\* C2 witness: a row whose sales source is the text "abc" or a null, kept with
\* the canonical value 0.
C2_Witness ==
    /\ Prepared
    /\ Mapped(mapping, "sales")
    /\ \E i \in 1..Len(raw.rows) :
          /\ raw.rows[i].amount \in {StrC(S_abc), Null}
          /\ prepared.rows[i]["_sales"] = Num(0)

\* The cells of FlagCells that Python stringifies, lower-cased, to one of
\* "yes", "true", "1", "returned".
AcceptedFlags ==
    {IntC(1), BoolC(TRUE), StrC(<<"1">>), StrC(<<"y", "e", "s">>),
     StrC(<<"Y", "e", "s">>), StrC(<<"T", "R", "U", "E">>),
     StrC(<<"R", "e", "t", "u", "r", "n", "e", "d">>)}

\* C3: with the returned role mapped, _returned is true exactly for the source
\* values whose lower-cased string is one of "yes", "true", "1", "returned";
\* every other value, the empty string and null included, gives false.
C3_ReturnedCoercion ==
    (Prepared /\ Mapped(mapping, "returned")) =>
      \A i \in 1..Len(raw.rows) :
         prepared.rows[i]["_returned"] = (raw.rows[i].flag \in AcceptedFlags)

\* C3 witness: a file with a row spelled "Yes" (true) and a null row (false).
C3_Witness ==
    /\ Prepared
    /\ Mapped(mapping, "returned")
    /\ \E i, j \in 1..Len(raw.rows) :
          /\ raw.rows[i].flag = StrC(<<"Y", "e", "s">>) /\ prepared.rows[i]["_returned"]
          /\ raw.rows[j].flag = Null /\ ~prepared.rows[j]["_returned"]

\* The strings of the model's cells that denote a number.
NumberStrings == { <<"1", "2">>, <<"1", ".", "5">> }

\* The cell cannot be coerced to what the role holds: no number for a
\* numeric role, no date for the date role (the model's dates are the strings
\* of 16 characters and more), nothing at all for the returned flag.
Uncoercible(role, c) ==
    CASE role \in NumericRoles -> c.k = "null" \/ (c.k = "str" /\ c.s \notin NumberStrings)
      [] role = "date" -> c.k # "str" \/ Len(c.s) < 16
      [] role = "returned" -> c.k = "null" \/ c = StrC(<<>>)
      [] OTHER -> FALSE

\* The documented default of a role: 0, null, false.
DefaultOf(role) ==
    CASE role \in NumericRoles -> Num(0)
      [] role = "date" -> NaT
      [] role = "returned" -> FALSE

\* A cell the role coerces.
GoodCell(role) ==
    CASE role \in NumericRoles -> IntC(1)
      [] role = "date" -> Jan31Noon
      [] role = "returned" -> StrC(<<"y", "e", "s">>)

\* The file with the cell of row i, column c replaced.
WithCell(df, i, c, cell) ==
    [df EXCEPT !.rows = [df.rows EXCEPT ![i] = [df.rows[i] EXCEPT ![c] = cell]]]

\* The mapped roles whose source cell in row i cannot be coerced.
FailedRoles(i) ==
    {role \in NumericRoles \cup {"date", "returned"} :
        Mapped(mapping, role) /\ Uncoercible(role, raw.rows[i][mapping[role]])}

\* C21: prepare_data never raises and returns a row for every row of the
\* file; a cell that cannot be coerced gives its role's default (0, null,
\* false), the cells the row has in the file keep their values, and the
\* canonical values of the roles read from other columns are what they are
\* when the cell is one that coerces.
C21_PrepareTotal ==
    /\ pc # "KeyError"
    /\ Prepared =>
         /\ Len(prepared.rows) = Len(raw.rows)
         /\ \A i \in 1..Len(raw.rows) : \A role \in FailedRoles(i) :
               /\ HasCol(prepared, Canon(role))
               /\ prepared.rows[i][Canon(role)] = DefaultOf(role)
               /\ \A c \in Range(raw.cols) : prepared.rows[i][c] = raw.rows[i][c]
               /\ LET mended == prepare_data(WithCell(raw, i, mapping[role], GoodCell(role)),
                                             mapping)
                  IN  \A other \in Roles :
                         (Mapped(mapping, other) /\ mapping[other] # mapping[role]) =>
                            mended.rows[i][Canon(other)] = prepared.rows[i][Canon(other)]

\* The names prepare_data gives its columns.
CanonicalNames == {Canon(role) : role \in Roles} \cup DateParts

\* C22: every column of the file is in the canonical dataset at its place
\* and with its values, every column after them is a canonical one, and no
\* row is added or lost.
C22_Additive ==
    Prepared =>
      /\ Len(prepared.rows) = Len(raw.rows)
      /\ Len(prepared.cols) >= Len(raw.cols)
      /\ \A j \in 1..Len(raw.cols) : prepared.cols[j] = raw.cols[j]
      /\ \A j \in (Len(raw.cols) + 1)..Len(prepared.cols) : prepared.cols[j] \in CanonicalNames
      /\ \A i \in 1..Len(raw.rows) : \A c \in Range(raw.cols) :
            prepared.rows[i][c] = raw.rows[i][c]

\* C23: prepare_data on its own output, under the same mapping, returns the
\* columns and the canonical values it was given.
C23_Idempotent ==
    Prepared =>
      /\ ~prepare_data_raises(prepared, mapping)
      /\ LET again == prepare_data(prepared, mapping)
         IN  /\ again.cols = prepared.cols
             /\ \A i \in 1..Len(prepared.rows) :
                   \A c \in Range(prepared.cols) \cap CanonicalNames :
                      again.rows[i][c] = prepared.rows[i][c]

(***************************************************************************)
(* The aggregator on its own inputs: views of numbers, order ids, return   *)
(* flags, categories and months under the mappings that matter to each     *)
(* metric, and the example of the specification (sales 100, 200, 300 and   *)
(* profit 10, 20, -30, nothing else mapped).  The views of orders and the  *)
(* example are also run by the page, whose sidebar has no filter for them. *)
(***************************************************************************)
KpiRows ==
    {[PlainRow EXCEPT !.amount = IntC(a), !.gain = IntC(g), !.ref = StrC(r)] :
        a \in {-1, 0, 2}, g \in {-1, 1}, r \in {S_A, S_B}}

InitKpi ==
    InitWith(Files(KpiRows),
             Mappings({"sales", "profit", "customer", "order_id"}, {})
                \cup Mappings({"sales", "profit", "customer", "order_id"},
                              {"quantity", "discount"}),
             {NoSelection}, {"call"})

OrderRows ==
    {[PlainRow EXCEPT !.amount = IntC(a), !.ref = StrC(r), !.flag = StrC(f)] :
        a \in {1, 2}, r \in {S_A, S_B}, f \in {<<"y", "e", "s">>, <<"n", "o">>}}

InitOrders ==
    InitWith(Files(OrderRows), Mappings({"sales", "profit", "order_id", "returned"}, {}),
             {NoSelection},
             {"call", "page"})

RatioRows ==
    {[PlainRow EXCEPT !.amount = IntC(a), !.gain = IntC(g), !.name = StrC(n), !.when = w] :
        a \in {0, 2}, g \in {0, 1}, n \in {S_A, S_B}, w \in {Jan31, Feb01}}

InitRatios ==
    InitWith(Files(RatioRows), Mappings({"profit", "category", "date"}, {"sales"}),
             {NoSelection}, {"call"})

ExampleFile ==
    [cols |-> RawCols,
     rows |-> <<[PlainRow EXCEPT !.amount = IntC(100), !.gain = IntC(10)],
                [PlainRow EXCEPT !.amount = IntC(200), !.gain = IntC(20)],
                [PlainRow EXCEPT !.amount = IntC(300), !.gain = IntC(-30)]>>]

InitExample ==
    InitWith({ExampleFile}, {MappingOf({"sales", "profit"})}, {NoSelection}, {"call", "page"})

\* Views of orders dated in January, in February or not at all.
MonthlyRows ==
    {[PlainRow EXCEPT !.when = w, !.amount = IntC(a), !.ref = StrC(r)] :
        w \in {Null, Jan31, Feb01}, a \in {0, 2}, r \in {S_A, S_B}}

InitMonthly ==
    InitWith(Files(MonthlyRows), Mappings({"order_id", "profit"}, {"sales", "date"}),
             {NoSelection}, {"call"})

\* Views of two groups, two order ids and two customers: the group is the
\* column name, the order id the column ref, the customer the column flag.
GroupRows ==
    {[PlainRow EXCEPT !.amount = IntC(a), !.name = StrC(n), !.ref = StrC(r), !.flag = StrC(c)] :
        a \in {0, 2}, n \in {S_A, S_B}, r \in {S_A, S_B}, c \in {S_A, S_B}}

\* The mappings of M with the customer, when mapped, read from the column flag.
CustomerInFlag(M) ==
    {IF m.customer = None THEN m ELSE [m EXCEPT !.customer = "flag"] : m \in M}

InitGroups ==
    InitWith(Files(GroupRows),
             CustomerInFlag(Mappings({"order_id", "customer"}, {"sales", "category"})
                               \cup Mappings({"order_id", "customer"},
                                             {"sales", "category", "profit", "quantity"})),
             {NoSelection}, {"call"})

\* The mappings of M with the customer, when mapped, read from the column name.
CustomerInName(M) ==
    {IF m.customer = None THEN m ELSE [m EXCEPT !.customer = "name"] : m \in M}

\* Views of two products (and customers) whose sales and profit rank apart.
RankingRows ==
    {[PlainRow EXCEPT !.name = StrC(n), !.amount = IntC(a), !.gain = IntC(g)] :
        n \in {S_A, S_B}, a \in {1, 2}, g \in {1, 2}}

\* The rankings asked for: none, the first, or all by default.
Asks == {[n |-> n, by |-> by] : n \in {0, 1, DefaultN}, by \in {"Sales", "Profit", "Quantity"}}

InitRanking ==
    InitAsking(Files(RankingRows),
               CustomerInName(Mappings({"profit", "quantity"}, {"sales", "product", "customer"})),
               {NoSelection}, {"call"}, Asks)

\* The example of the specification: 4 rows, 2 customers, one of them with 2
\* orders, sales 50, 50, 100, 100.
TopExampleFile ==
    [cols |-> RawCols,
     rows |-> <<[PlainRow EXCEPT !.name = StrC(S_B), !.ref = StrC(S_abc), !.amount = IntC(50)],
                [PlainRow EXCEPT !.name = StrC(S_B), !.ref = StrC(S_abc), !.amount = IntC(50)],
                [PlainRow EXCEPT !.name = StrC(S_A), !.ref = StrC(S_A), !.amount = IntC(100)],
                [PlainRow EXCEPT !.name = StrC(S_A), !.ref = StrC(S_B), !.amount = IntC(100)]>>]

InitTopExample ==
    InitAsking({TopExampleFile},
               CustomerInName({MappingOf({"sales", "customer", "order_id"})}),
               {NoSelection}, {"call"}, {[n |-> 1, by |-> "Sales"]})

\* The example of the specification: 3 customers with 1, 2 and 5 orders.
RepeatExampleFile ==
    [cols |-> RawCols,
     rows |-> [i \in 1..8 |->
                 [PlainRow EXCEPT !.ref = IntC(i),
                                  !.name = StrC(IF i = 1 THEN S_A ELSE IF i <= 3 THEN S_B
                                                ELSE S_abc)]]]

InitRepeatExample ==
    InitWith({RepeatExampleFile}, CustomerInName({MappingOf({"sales", "customer", "order_id"})}),
             {NoSelection}, {"call"})

\* Views of two products, two order ids, returned or not.
ReturnRateRows ==
    {[PlainRow EXCEPT !.name = StrC(n), !.ref = StrC(r), !.flag = StrC(f)] :
        n \in {S_A, S_B}, r \in {S_A, S_B}, f \in {<<"y", "e", "s">>, <<"n", "o">>}}

InitReturnRate ==
    InitAsking(Files(ReturnRateRows), Mappings({"order_id", "sales"}, {"product", "returned"}),
               {NoSelection}, {"call"},
               {[n |-> n, by |-> "Sales"] : n \in {0, 1, DefaultN}})

\* The example of the specification: A with 2 orders and no return, B with 2
\* orders and 1 return.
ReturnExampleFile ==
    [cols |-> RawCols,
     rows |-> <<[PlainRow EXCEPT !.name = StrC(S_A), !.ref = IntC(1)],
                [PlainRow EXCEPT !.name = StrC(S_A), !.ref = IntC(2)],
                [PlainRow EXCEPT !.name = StrC(S_B), !.ref = IntC(3)],
                [PlainRow EXCEPT !.name = StrC(S_B), !.ref = IntC(4),
                                 !.flag = StrC(<<"y", "e", "s">>)]>>]

InitReturnExample ==
    InitWith({ReturnExampleFile}, {MappingOf({"sales", "product", "order_id", "returned"})},
             {NoSelection}, {"call"})

\* Views whose dimension and customer columns hold nulls next to values.
NullableRows ==
    {[PlainRow EXCEPT !.name = n, !.amount = IntC(a), !.ref = r] :
        n \in {Null, StrC(S_A), StrC(S_B)}, a \in {1, 2}, r \in {Null, StrC(S_A)}}

InitNullable ==
    InitWith(Files(NullableRows), Mappings({"region", "customer"}, {"sales", "category"}),
             {NoSelection}, {"call"})

InitMetrics ==
    \/ InitKpi \/ InitOrders \/ InitRatios \/ InitExample \/ InitMonthly \/ InitGroups
    \/ InitRanking \/ InitTopExample \/ InitRepeatExample
    \/ InitReturnRate \/ InitReturnExample \/ InitNullable

SpecMetrics == InitMetrics /\ [][Next]_vars

\* The sum of the integers of column c of a view.
RECURSIVE IntSum(_, _)
IntSum(rows, c) == IF rows = <<>> THEN 0 ELSE rows[1][c].n + IntSum(Tail(rows), c)

\* The output keys of calculate_kpis that are keyed on a role.
KpiKeys(role) ==
    CASE role = "profit" -> {"total_profit", "profit_margin"}
      [] role = "customer" -> {"total_customers"}
      [] role = "quantity" -> {"total_quantity"}
      [] role = "discount" -> {"avg_discount"}

\* C4: a metric keyed on an unmapped role is not in the aggregator's output
\* with the value 0: no such key of calculate_kpis for profit, customer,
\* quantity and discount, no field of get_return_metrics for returned.
C4_UnmappedWithheld ==
    /\ Reached("kpis") =>
         \A role \in {"profit", "customer", "quantity", "discount"} :
            ~Mapped(mapping, role) =>
               \A key \in KpiKeys(role) : ~(key \in DOMAIN kpis /\ kpis[key] = Num(0))
    /\ (Reached("returns") /\ Called("has_returned") /\ ~Mapped(mapping, "returned")) =>
         \A key \in DOMAIN retm : retm[key] # Num(0)

\* The order count of the view: distinct order ids when order_id is mapped,
\* rows otherwise.
OrderCount ==
    IF Mapped(mapping, "order_id")
    THEN Cardinality({filtered.rows[i]["_order_id"] : i \in 1..Len(filtered.rows)})
    ELSE Len(filtered.rows)

\* calculate_kpis counts orders by the rule and divides total_sales by it.
KpiOrdersByRule ==
    /\ kpis.total_orders = Num(OrderCount)
    /\ IF OrderCount > 0
       THEN /\ IsFinite(kpis.avg_order_value)
            /\ kpis.avg_order_value.n * OrderCount
                 = kpis.total_sales.n * kpis.avg_order_value.d
       ELSE kpis.avg_order_value = Num(0)

\* C5: on any view calculate_kpis total_orders, the avg_order_value
\* denominator and get_return_metrics total_orders are all the order count.
C5_OrdersAgreeEverywhere ==
    /\ Reached("kpis") => KpiOrdersByRule
    /\ (Reached("returns") /\ Called("has_returned")) => retm.total_orders = Num(OrderCount)

\* C6: with sales mapped, total_sales and total_profit are the sums of _sales
\* and _profit, profit_margin is total_profit / total_sales * 100 when
\* total_sales > 0 and 0 otherwise, avg_order_value is total_sales /
\* total_orders when total_orders > 0 and 0 otherwise.
C6_KpiFormulas ==
    (Reached("kpis") /\ Mapped(mapping, "sales")) =>
      /\ kpis.total_sales = Num(IntSum(filtered.rows, "_sales"))
      /\ Mapped(mapping, "profit") =>
           kpis.total_profit = Num(IntSum(filtered.rows, "_profit"))
      /\ IF kpis.total_sales.n > 0
         THEN /\ IsFinite(kpis.profit_margin)
              /\ kpis.profit_margin.n * kpis.total_sales.n
                   = 100 * kpis.total_profit.n * kpis.profit_margin.d
         ELSE kpis.profit_margin = Num(0)
      /\ IF kpis.total_orders.n > 0
         THEN /\ IsFinite(kpis.avg_order_value)
              /\ kpis.avg_order_value.n * kpis.total_orders.n
                   = kpis.total_sales.n * kpis.avg_order_value.d
         ELSE kpis.avg_order_value = Num(0)

\* C6 witness: the example of the specification and its five results.
C6_Witness ==
    /\ Reached("kpis")
    /\ raw = ExampleFile
    /\ kpis.total_sales = Num(600)
    /\ kpis.total_profit = Num(0)
    /\ kpis.total_orders = Num(3)
    /\ kpis.profit_margin = Num(0)
    /\ kpis.avg_order_value = Num(200)

\* C7: on an empty view every numeric field of calculate_kpis is exactly 0.
C7_EmptyViewAllZero ==
    (Reached("kpis") /\ Len(filtered.rows) = 0) =>
      \A key \in DOMAIN kpis : kpis[key] = Num(0)

\* C8: every ratio of the aggregator is finite and is 0 when its denominator
\* is 0: the Profit Margin of each group of get_breakdown, the Sales Change and
\* Profit Change of each bucket of calculate_monthly_metrics after the first.
C8_RatiosFiniteZeroOnZero ==
    /\ (Reached("breakdown") /\ Called("has_category") /\ ~breakdown.category.none) =>
         \A i \in 1..Len(breakdown.category.rows) :
            LET r == breakdown.category.rows[i]
            IN  "Profit Margin" \in DOMAIN r =>
                  /\ IsFinite(r["Profit Margin"])
                  /\ r["Sales"] = Num(0) => r["Profit Margin"] = Num(0)
    /\ (Reached("monthly") /\ Called("has_date") /\ ~monthly.none) =>
         \A i \in 2..Len(monthly.rows) :
            \A c \in {"Sales", "Profit"} \cap DOMAIN monthly.rows[i] :
               LET change == IF c = "Sales" THEN "Sales Change" ELSE "Profit Change"
               IN  /\ IsFinite(monthly.rows[i][change])
                   /\ monthly.rows[i - 1][c] = Num(0) => monthly.rows[i][change] = Num(0)

(***************************************************************************)
(* The filter on its own inputs: rows dated at noon of 31 January, at      *)
(* midnight of 1 February or not at all, in category A or B, with the date *)
(* and the category mapped or not, the region mapped and the segment not,  *)
(* and the selections with at most MaxSet of the five filters set.         *)
(***************************************************************************)
MaxSet == 2

FilterRows ==
    {[PlainRow EXCEPT !.when = w, !.name = StrC(n)] :
        w \in {Null, Jan31Noon, Feb01}, n \in {S_A, S_B}}

\* The filters of a selection that are set.
SetFilters(sel) ==
    {f \in {"start_date", "end_date"} : sel[f].k # "none"}
        \cup {f \in {"categories", "regions", "segments"} : ~sel[f].none}

Selections ==
    {sel \in [start_date : {NoDate, Jan31Day, Feb01Day},
              end_date : {NoDate, Jan31Day, Feb01Day},
              categories : {NoList, List(<<>>), List(<<S_A>>)},
              regions : {NoList, List(<<S_B>>)},
              segments : {NoList, List(<<S_A>>)}] :
        Cardinality(SetFilters(sel)) <= MaxSet}

InitCall ==
    InitWith(Files(FilterRows), Mappings({"date", "category"}, {"sales", "region"}),
             Selections, {"call"})

\* The page run on the same files, with the sidebar building the selection.
InitSidebar ==
    InitWith(Files(FilterRows), Mappings({"category"}, {"sales", "date"}),
             SidebarPicks, {"page"})

InitFilter == InitCall \/ InitSidebar

SpecFilter == InitFilter /\ [][Next]_vars

\* The calendar day of a timestamp or of a calendar date, as a number.
DayKey(v) == (v.y * 12 + v.m) * 31 + v.d

\* A row's date is within the selected days, both bounds included.
WithinDays(r, sel) ==
    /\ ~IsNaT(r["_date"])
    /\ sel.start_date.k # "none" => DayKey(r["_date"]) >= DayKey(sel.start_date)
    /\ sel.end_date.k # "none" => DayKey(r["_date"]) <= DayKey(sel.end_date)

\* C9: with the date mapped and a date bound supplied, and no other filter,
\* filter_data keeps exactly the rows whose date is not null and lies from
\* the start day to the end day, both included: a row dated on the end day
\* is kept.
C9_DateBoundsInclusive ==
    (/\ Reached("filtered")
     /\ Mapped(mapping, "date")
     /\ SetFilters(selection) # {}
     /\ SetFilters(selection) \subseteq {"start_date", "end_date"}) =>
        filtered.rows = SelectSeq(prepared.rows, LAMBDA r : WithinDays(r, selection))

\* A filter of a selection that is unset: None, an empty list, or a filter
\* on a dimension that is not mapped.
Unset(sel, f) ==
    CASE f \in {"start_date", "end_date"} -> sel[f].k = "none" \/ ~Mapped(mapping, "date")
      [] f = "categories" -> sel[f].none \/ sel[f].vals = <<>> \/ ~Mapped(mapping, "category")
      [] f = "regions" -> sel[f].none \/ sel[f].vals = <<>> \/ ~Mapped(mapping, "region")
      [] f = "segments" -> sel[f].none \/ sel[f].vals = <<>> \/ ~Mapped(mapping, "segment")

\* The selection with its unset filters left out.
WithoutUnset(sel) ==
    [f \in DOMAIN sel |->
        IF Unset(sel, f)
        THEN IF f \in {"start_date", "end_date"} THEN NoDate ELSE NoList
        ELSE sel[f]]

\* C10: an unset filter is a no-op: the view is the view of the selection
\* with its unset filters left out ([] as None, date bounds without a date
\* column, lists for an unmapped dimension), and is every row of the
\* prepared table when all five filters are unset.
C10_UnsetIsNoOp ==
    Reached("filtered") =>
      /\ filtered = filter_data(prepared, WithoutUnset(selection))
      /\ (\A f \in DOMAIN selection : Unset(selection, f)) => filtered = prepared

\* C10 witness: an empty category list on a mapped category and date bounds
\* without a date column, on a table of two rows, all of them in the view.
C10_Witness ==
    /\ Reached("filtered")
    /\ Mapped(mapping, "category") /\ ~Mapped(mapping, "date")
    /\ selection.categories = List(<<>>)
    /\ selection.end_date = Jan31Day
    /\ Len(prepared.rows) = 2
    /\ filtered = prepared

\* The selection with every filter but f left out.
Alone(sel, f) == [NoSelection EXCEPT ![f] = sel[f]]

\* A row passes the date filter of a selection on a table with a date.
PassesDate(r, sel) ==
    /\ sel.start_date.k # "none" => OnOrAfter(r["_date"], BoundTimestamp(sel.start_date))
    /\ sel.end_date.k # "none" => OnOrBefore(r["_date"], BoundTimestamp(sel.end_date))

\* A row passes the allow-list of a mapped dimension when the list is
\* supplied and not empty.
PassesList(r, role, values) ==
    (Mapped(mapping, role) /\ ~values.none /\ values.vals # <<>>) =>
        \E i \in 1..Len(values.vals) : values.vals[i] = r[Canon(role)]

\* A row passes every active filter of a selection.
PassesAll(r, sel) ==
    /\ Mapped(mapping, "date") => PassesDate(r, sel)
    /\ PassesList(r, "category", sel.categories)
    /\ PassesList(r, "region", sel.regions)
    /\ PassesList(r, "segment", sel.segments)

\* C11: filter_data composes the dimensions by AND: the view holds exactly
\* the rows that pass the date filter and every active allow-list, and is
\* the intersection of the views of each filter applied alone.
C11_FiltersComposeByAnd ==
    Reached("filtered") =>
      /\ filtered.rows = SelectSeq(prepared.rows, LAMBDA r : PassesAll(r, selection))
      /\ filtered.rows =
           SelectSeq(prepared.rows,
                     LAMBDA r : \A f \in DOMAIN selection :
                        r \in Range(filter_data(prepared, Alone(selection, f)).rows))

\* C11 witness: a category list and a region list that each keep a row of
\* the table and together keep none.
C11_Witness ==
    /\ Reached("filtered")
    /\ Mapped(mapping, "category") /\ Mapped(mapping, "region")
    /\ selection.categories = List(<<S_A>>) /\ selection.regions = List(<<S_B>>)
    /\ filter_data(prepared, Alone(selection, "categories")).rows # <<>>
    /\ filter_data(prepared, Alone(selection, "regions")).rows # <<>>
    /\ filtered.rows = <<>>

\* s is t with some elements left out, the others in their order.
RECURSIVE IsSubSeq(_, _)
IsSubSeq(s, t) ==
    IF s = <<>> THEN TRUE
    ELSE IF t = <<>> THEN FALSE
    ELSE IF Head(s) = Head(t) THEN IsSubSeq(Tail(s), Tail(t))
    ELSE IsSubSeq(s, Tail(t))

\* C12: filter_data is a non-destructive restriction: the view has the
\* columns of the input and rows of the input, unchanged and in their
\* order, and the input after the call is the prepared table it was.
C12_NonDestructive ==
    Reached("filtered") =>
      /\ filtered.cols = prepared.cols
      /\ IsSubSeq(filtered.rows, prepared.rows)
      /\ prepared = prepare_data(raw, mapping)

\* C12 witness: a filter that drops the first of two rows and keeps the
\* second, the input still holding both.
C12_Witness ==
    /\ Reached("filtered")
    /\ Len(prepared.rows) = 2
    /\ filtered.rows = <<prepared.rows[2]>>
    /\ prepared.rows[1] # prepared.rows[2]

\* The domain of a role in the filter options.
DomainOf(role) ==
    CASE role = "category" -> options.categories
      [] role = "region" -> options.regions
      [] role = "segment" -> options.segments

\* The source cells of a role that are neither null nor empty.
ValueCells(role) ==
    {raw.rows[i][mapping[role]] : i \in 1..Len(raw.rows)} \ {Null, StrC(<<>>)}

\* C13: the domain of a mapped category, region or segment has no
\* duplicates, is sorted ascending, holds the string of every source value
\* that is neither null nor empty, and has no entry for a null or empty
\* source value.
C13_DomainsCleanAndSorted ==
    Reached("options") =>
      \A role \in {"category", "region", "segment"} :
         Mapped(mapping, role) =>
            LET dom == DomainOf(role)
            IN  /\ \A i \in 1..Len(dom) - 1 : StrLess(dom[i], dom[i + 1])
                /\ \A c \in ValueCells(role) : AsStr(c) \in Range(dom)
                /\ \A s \in Range(dom) : \E c \in ValueCells(role) : AsStr(c) = s

\* calculate_monthly_metrics was called and returned a series.
HasMonthly == Reached("monthly") /\ Called("has_date") /\ ~monthly.none

\* The rows of the view in the bucket of a year-month key.
Bucket(key) == SelectSeq(filtered.rows, LAMBDA r : r["_year_month"] = key)

\* The change of a bucket against the bucket before it is
\* (current - previous) / previous * 100; the quotient is not defined where
\* previous is 0.
IsChange(change, cur, prev) ==
    prev.n # 0 =>
         /\ IsFinite(change)
         /\ change.n * prev.n * cur.d = 100 * (cur.n * prev.d - prev.n * cur.d) * change.d

\* C14: the monthly series has one row per year-month key of the view, in
\* strictly ascending order of the key whatever the order of the input rows;
\* each row's Sales is the sum of _sales in its bucket; the changes of the
\* first bucket are null and those of every later bucket are
\* (current - previous) / previous * 100.
C14_MonthlySeries ==
    HasMonthly =>
      /\ {monthly.rows[i]["Month"] : i \in 1..Len(monthly.rows)}
           = {filtered.rows[i]["_year_month"] : i \in 1..Len(filtered.rows)}
      /\ \A i \in 1..Len(monthly.rows) - 1 :
            StrLess(monthly.rows[i]["Month"], monthly.rows[i + 1]["Month"])
      /\ \A i \in 1..Len(monthly.rows) :
            LET row == monthly.rows[i]
            IN  /\ row["Sales"] = Num(IntSum(Bucket(row["Month"]), "_sales"))
                /\ \A c \in {"Sales", "Profit"} \cap DOMAIN row :
                      LET change == row[IF c = "Sales" THEN "Sales Change" ELSE "Profit Change"]
                      IN  IF i = 1 THEN IsNaN(change)
                          ELSE IsChange(change, row[c], monthly.rows[i - 1][c])

\* C14 witness: a February row of sales 0 before a January row of sales 2
\* gives January first, without a change, then February with -100.
C14_Witness ==
    /\ HasMonthly
    /\ Len(filtered.rows) = 2
    /\ filtered.rows[1]["_month"] = Num(2) /\ filtered.rows[2]["_month"] = Num(1)
    /\ Len(monthly.rows) = 2
    /\ monthly.rows[1]["Sales"] = Num(2) /\ IsNaN(monthly.rows[1]["Sales Change"])
    /\ monthly.rows[2]["Sales"] = Num(0) /\ monthly.rows[2]["Sales Change"] = Num(-100)

\* C15: every row of the monthly series has an Orders count: the distinct
\* _order_id of its bucket when order_id is mapped, the rows of its bucket
\* when it is not.
C15_MonthlyOrders ==
    HasMonthly =>
      \A i \in 1..Len(monthly.rows) :
         LET row  == monthly.rows[i]
             rows == Bucket(row["Month"])
         IN  /\ "Orders" \in DOMAIN row
             /\ row["Orders"] =
                  IF Mapped(mapping, "order_id")
                  THEN Num(Cardinality({rows[j]["_order_id"] : j \in 1..Len(rows)}))
                  ELSE Num(Len(rows))

\* The rows of the view whose column c holds key.
GroupOf(c, key) == SelectSeq(filtered.rows, LAMBDA r : r[c] = key)

\* The number of distinct values of column c in rows.
Distinct(rows, c) == Cardinality({rows[i][c] : i \in 1..Len(rows)})

\* x >= y on finite floats.
AtLeast(x, y) == x.n * y.d >= y.n * x.d

\* rows is in non-increasing order of column c.
NonIncreasing(rows, c) == \A i \in 1..Len(rows) - 1 : AtLeast(rows[i][c], rows[i + 1][c])

\* C16: with sales and the category mapped, get_breakdown has exactly one
\* row per distinct category of the view; its Sales, Profit and Quantity are
\* the sums over the group's rows, its Orders and Customers the group's
\* distinct counts; the rows are in non-increasing order of Sales.
C16_BreakdownGroups ==
    (/\ Reached("breakdown") /\ Called("has_category")
     /\ Mapped(mapping, "category") /\ Mapped(mapping, "sales")) =>
        LET rows == breakdown.category.rows
        IN  /\ ~breakdown.category.none
            /\ Len(rows) = Distinct(filtered.rows, "_category")
            /\ {rows[i]["Category"] : i \in 1..Len(rows)}
                 = {filtered.rows[i]["_category"] : i \in 1..Len(filtered.rows)}
            /\ NonIncreasing(rows, "Sales")
            /\ \A i \in 1..Len(rows) :
                  LET g == GroupOf("_category", rows[i]["Category"])
                  IN  /\ rows[i]["Sales"] = Num(IntSum(g, "_sales"))
                      /\ Mapped(mapping, "profit") =>
                           rows[i]["Profit"] = Num(IntSum(g, "_profit"))
                      /\ Mapped(mapping, "quantity") =>
                           rows[i]["Quantity"] = Num(IntSum(g, "_quantity"))
                      /\ Mapped(mapping, "order_id") =>
                           rows[i]["Orders"] = Num(Distinct(g, "_order_id"))
                      /\ Mapped(mapping, "customer") =>
                           rows[i]["Customers"] = Num(Distinct(g, "_customer"))

\* C16 witness: category A with sales 0 before category B with sales 2 in
\* the view; B comes first in the breakdown, with its order and customer.
C16_Witness ==
    /\ Reached("breakdown")
    /\ Mapped(mapping, "sales") /\ Mapped(mapping, "category")
    /\ Mapped(mapping, "order_id") /\ Mapped(mapping, "customer")
    /\ Len(filtered.rows) = 2
    /\ filtered.rows[1]["_category"] = S_A
    /\ Len(breakdown.category.rows) = 2
    /\ breakdown.category.rows[1]["Category"] = S_B
    /\ breakdown.category.rows[1]["Sales"] = Num(2)
    /\ breakdown.category.rows[1]["Orders"] = Num(1)
    /\ breakdown.category.rows[1]["Customers"] = Num(1)
    /\ breakdown.category.rows[2]["Sales"] = Num(0)

\* get_return_metrics was called on a view with the returned role mapped.
HasReturnMetrics ==
    Reached("returns") /\ Called("has_returned") /\ Mapped(mapping, "returned")

\* The rows of the view that are returned.
Returned == SelectSeq(filtered.rows, LAMBDA r : r["_returned"])

\* C19: with returned mapped, returned_orders is the number of distinct
\* _order_id among the returned rows (of returned rows when order_id is
\* unmapped), return_rate is returned_orders / total_orders * 100 (0 when
\* total_orders is 0), returned_sales and returned_profit_loss are the sums
\* of _sales and _profit over the returned rows (0 when unmapped); so
\* returned_orders <= total_orders and 0 <= return_rate <= 100.
C19_ReturnMetrics ==
    HasReturnMetrics =>
      /\ retm.returned_orders =
           IF Mapped(mapping, "order_id") THEN Num(Distinct(Returned, "_order_id"))
           ELSE Num(Len(Returned))
      /\ IF retm.total_orders.n > 0
         THEN /\ IsFinite(retm.return_rate)
              /\ retm.return_rate.n * retm.total_orders.n
                   = 100 * retm.returned_orders.n * retm.return_rate.d
         ELSE retm.return_rate = Num(0)
      /\ retm.returned_sales =
           IF Mapped(mapping, "sales") THEN Num(IntSum(Returned, "_sales")) ELSE Num(0)
      /\ retm.returned_profit_loss =
           IF Mapped(mapping, "profit") THEN Num(IntSum(Returned, "_profit")) ELSE Num(0)
      /\ AtLeast(retm.total_orders, retm.returned_orders)
      /\ AtLeast(retm.return_rate, Num(0)) /\ AtLeast(Num(100), retm.return_rate)

\* C19 witness: two orders, the one of sales 2 returned: 1 returned order of
\* 2, a rate of 50 and returned sales of 2.
C19_Witness ==
    /\ HasReturnMetrics
    /\ Mapped(mapping, "order_id") /\ Mapped(mapping, "sales")
    /\ retm.total_orders = Num(2)
    /\ retm.returned_orders = Num(1)
    /\ retm.return_rate = Num(50)
    /\ retm.returned_sales = Num(2)

\* The smaller of two numbers.
Min2(a, b) == IF a < b THEN a ELSE b

\* The metric a ranking by "by" is ordered on: by when its role is mapped,
\* Sales when it is not.
RankingMetric(by) ==
    IF \/ by = "Profit" /\ Mapped(mapping, "profit")
       \/ by = "Quantity" /\ Mapped(mapping, "quantity")
    THEN by ELSE "Sales"

\* The canonical column a metric sums.
MetricColumn(metric) ==
    CASE metric = "Sales" -> "_sales" [] metric = "Profit" -> "_profit"
      [] metric = "Quantity" -> "_quantity"

\* rows is the top n of the groups of column c by the sum of a metric: as
\* many rows as n and the groups allow, each a group of the view with its
\* sum, in non-increasing order, no group left out being greater than one
\* that is in.
IsTop(rows, name, c, metric, n) ==
    LET groups == {filtered.rows[i][c] : i \in 1..Len(filtered.rows)}
        sum(k) == IntSum(GroupOf(c, k), MetricColumn(metric))
        shown  == {rows[i][name] : i \in 1..Len(rows)}
    IN  /\ Len(rows) = Min2(n, Cardinality(groups))
        /\ Cardinality(shown) = Len(rows)
        /\ shown \subseteq groups
        /\ \A i \in 1..Len(rows) : rows[i][metric] = Num(sum(rows[i][name]))
        /\ NonIncreasing(rows, metric)
        /\ \A k \in groups \ shown : \A j \in shown : sum(k) <= sum(j)

\* C17: get_top_items and get_top_customers return min(n, groups) rows in
\* non-increasing order of the ranking metric, the requested one when it is
\* mapped (Sales for customers) and Sales otherwise, and no omitted group
\* has a greater sum than a returned one.
C17_TopRankings ==
    /\ (/\ Reached("top_items") /\ Called("has_product")
        /\ Mapped(mapping, "product") /\ Mapped(mapping, "sales")) =>
          /\ ~top_items.none
          /\ IsTop(top_items.rows, "Name", "_product", RankingMetric(ask.by), ask.n)
    /\ (/\ Reached("top_customers") /\ Called("has_customer")
        /\ Mapped(mapping, "customer") /\ Mapped(mapping, "sales")) =>
          /\ ~top_customers.none
          /\ IsTop(top_customers.rows, "Customer", "_customer", "Sales", ask.n)

\* C17 witness: the example of the specification: of the customers with
\* sales 50 + 50 and 100 + 100, the top-1 is the one with 200.
C17_Witness ==
    /\ Reached("top_customers")
    /\ raw = TopExampleFile
    /\ Len(top_customers.rows) = 1
    /\ top_customers.rows[1]["Customer"] = S_A
    /\ top_customers.rows[1]["Sales"] = Num(200)
    /\ top_customers.rows[1]["Orders"] = Num(2)

\* The customers of the view.
Customers == {filtered.rows[i]["_customer"] : i \in 1..Len(filtered.rows)}

\* The order count of a customer: distinct _order_id when order_id is
\* mapped, rows otherwise.
OrdersOf(customer) ==
    IF Mapped(mapping, "order_id") THEN Distinct(GroupOf("_customer", customer), "_order_id")
    ELSE Len(GroupOf("_customer", customer))

\* C18: with the customer mapped, calculate_repeat_customers returns the
\* number of distinct customers, the number of them with an order count of
\* at least 2, and repeat / total * 100, or 0 when total is 0; repeat <= total.
C18_RepeatCustomers ==
    (Reached("repeat") /\ Called("has_customer") /\ Mapped(mapping, "customer")) =>
      LET total  == Cardinality(Customers)
          again  == Cardinality({c \in Customers : OrdersOf(c) >= 2})
      IN  /\ repeat[1] = Num(total)
          /\ repeat[2] = Num(again)
          /\ IF total > 0
             THEN IsFinite(repeat[3]) /\ repeat[3].n * total = 100 * again * repeat[3].d
             ELSE repeat[3] = Num(0)
          /\ AtLeast(repeat[1], repeat[2])

\* C18 witness: the example of the specification: order counts 1, 2 and 5
\* give total 3, repeat 2, rate 200 / 3.
C18_Witness ==
    /\ Reached("repeat")
    /\ raw = RepeatExampleFile
    /\ {OrdersOf(c) : c \in Customers} = {1, 2, 5}
    /\ repeat = <<Num(3), Num(2), Frac(200, 3)>>

\* get_items_by_return_rate was called on a view with a product and a
\* returned flag.
HasReturnItems ==
    /\ Reached("done") /\ Called("has_returned") /\ Called("has_product")
    /\ Mapped(mapping, "product") /\ Mapped(mapping, "returned")

\* C20: get_items_by_return_rate returns only groups with at least one
\* returned row, at most n of them, in non-increasing order of Return Rate,
\* the Total Orders of each being the order count of that group: its
\* distinct _order_id when order_id is mapped, its rows otherwise.
C20_ReturnRateRanking ==
    HasReturnItems =>
      LET rows == return_items.rows
      IN  /\ ~return_items.none
          /\ Len(rows) <= ask.n
          /\ NonIncreasing(rows, "Return Rate")
          /\ \A i \in 1..Len(rows) :
                LET g == GroupOf("_product", rows[i]["Product"])
                IN  /\ \E j \in 1..Len(g) : g[j]["_returned"]
                    /\ rows[i]["Total Orders"] =
                         IF Mapped(mapping, "order_id") THEN Num(Distinct(g, "_order_id"))
                         ELSE Num(Len(g))

\* C20 witness: the example of the specification: A with 2 orders and no
\* return, B with 2 orders and 1 return, give B alone.
C20_Witness ==
    /\ HasReturnItems
    /\ raw = ReturnExampleFile
    /\ Len(return_items.rows) = 1
    /\ return_items.rows[1]["Product"] = S_B
    /\ return_items.rows[1]["Returns"] = Num(1)
    /\ return_items.rows[1]["Total Orders"] = Num(2)
    /\ return_items.rows[1]["Return Rate"] = Num(50)

\* C26: every Month key of the monthly series is the year-month of a row of
\* the view whose parsed date is not null, and the Sales of the series add up
\* to the _sales of the rows whose parsed date is not null.
C26_NullDatesInNoBucket ==
    (HasMonthly /\ Mapped(mapping, "date") /\ HasCol(filtered, "_year_month")) =>
      LET dated == SelectSeq(filtered.rows, LAMBDA r : ~IsNaT(r["_date"]))
      IN  /\ \A i \in 1..Len(monthly.rows) :
                \E j \in 1..Len(dated) : dated[j]["_year_month"] = monthly.rows[i]["Month"]
          /\ FSum([i \in 1..Len(monthly.rows) |-> monthly.rows[i]["Sales"]])
                = Num(IntSum(dated, "_sales"))

\* The returned orders of the rows g of a group, in the unit of its total
\* orders: distinct _order_id when order_id is mapped, rows otherwise.
ReturnedOrdersOf(g) ==
    LET back == SelectSeq(g, LAMBDA r : r["_returned"])
    IN  IF Mapped(mapping, "order_id") THEN Distinct(back, "_order_id") ELSE Len(back)

\* C27: in every row of get_items_by_return_rate, Returns is the number of
\* returned orders of the group, counted as Total Orders is counted, so that
\* Returns <= Total Orders and Return Rate <= 100.
C27_ReturnsWithinOrders ==
    HasReturnItems =>
      \A i \in 1..Len(return_items.rows) :
         LET row == return_items.rows[i]
         IN  /\ row["Returns"] = Num(ReturnedOrdersOf(GroupOf("_product", row["Product"])))
             /\ AtLeast(row["Total Orders"], row["Returns"])
             /\ AtLeast(Num(100), row["Return Rate"])

\* The dimensions of get_breakdown and their has_* flags.
Dimensions == {"category", "region", "segment"}

DimensionFlag(dim) ==
    CASE dim = "category" -> "has_category" [] dim = "region" -> "has_region"
      [] dim = "segment" -> "has_segment"

\* C28: on the same view, the Sales of the rows of get_breakdown add up to
\* the total_sales of calculate_kpis for every mapped dimension, and the
\* total_customers of calculate_repeat_customers is that of calculate_kpis
\* (as exact sums: binary rounding is not modelled).
C28_MetricsConsistent ==
    /\ (Reached("breakdown") /\ Mapped(mapping, "sales")) =>
         \A dim \in {d \in Dimensions :
                        Mapped(mapping, d) /\ Called(DimensionFlag(d))} :
            /\ ~breakdown[dim].none
            /\ FSum([i \in 1..Len(breakdown[dim].rows) |-> breakdown[dim].rows[i]["Sales"]])
                  = kpis.total_sales
    /\ (Reached("repeat") /\ Called("has_customer")) => repeat[1] = kpis.total_customers

\* C28 witness: a view of a row without a category (sales 1) and a row of
\* category A (sales 2): two groups, "A" and "nan", whose Sales add up to
\* the total 3, and one customer, "nan", in either count.
C28_Witness ==
    /\ Reached("repeat")
    /\ Mapped(mapping, "category") /\ Mapped(mapping, "customer")
    /\ Len(filtered.rows) = 2
    /\ raw.rows[1].name = Null /\ raw.rows[1].amount = IntC(1) /\ raw.rows[1].ref = Null
    /\ raw.rows[2].name = StrC(S_A) /\ raw.rows[2].amount = IntC(2) /\ raw.rows[2].ref = Null
    /\ Len(breakdown.category.rows) = 2
    /\ breakdown.category.rows[1]["Sales"] = Num(2)
    /\ breakdown.category.rows[2]["Sales"] = Num(1)
    /\ kpis.total_sales = Num(3)
    /\ repeat[1] = Num(1) /\ kpis.total_customers = Num(1)

(***************************************************************************)
(* The default selection of the sidebar.                                   *)
(***************************************************************************)
\* The sidebar's selection has been passed to filter_data and the view has
\* come back, kept or found empty by the gate.
Filtered == Reached("filtered") \/ notice = "no_rows"

\* C29: on a page whose sidebar is left at its defaults, with the date
\* mapped, the view keeps every row of the prepared table whose parsed date
\* is not null, the rows dated after midnight of the last day included.
C29_DefaultKeepsDatedRows ==
    (/\ caller = "page"
     /\ picks = NoSelection
     /\ Mapped(mapping, "date")
     /\ Filtered) =>
        \A i \in 1..Len(prepared.rows) :
            ~IsNaT(prepared.rows[i]["_date"]) =>
                \E j \in 1..Len(filtered.rows) : filtered.rows[j] = prepared.rows[i]

(***************************************************************************)
(* The session.                                                            *)
(***************************************************************************)
\* C24: in every mapping the session holds, a role has at most one raw
\* column (the mapping is a function of the roles) and no raw column is the
\* column of two roles.
C24_MappingOneToOne ==
    \A r1 \in DOMAIN column_mapping : \A r2 \in DOMAIN column_mapping :
        (r1 # r2 /\ column_mapping[r1] # None) => column_mapping[r1] # column_mapping[r2]

\* The run has passed the three gates: a dataset, a sales column, a view
\* with a row.
GatesPassed ==
    /\ ~data.none
    /\ Mapped(mapping, "sales")
    /\ Reached("filtered")
    /\ filtered.rows # <<>>

\* No aggregator function is invoked before the three gates are passed, and
\* a run without a dataset, without a sales column or with an empty view
\* has stopped.
GatedAggregation ==
    /\ invoked # {} => GatesPassed
    /\ data.none => pc = "stopped"
    /\ (pc # "start" /\ ~Mapped(mapping, "sales")) => pc = "stopped"
    /\ Filtered => (pc # "stopped" <=> filtered.rows # <<>>)
    /\ pc = "stopped" => invoked = {}

\* C25 as stated: the aggregation is gated, and a run stopped for want of a
\* dataset, of a sales column or of a row in the view has shown a warning.
C25_StopsWithWarning ==
    /\ GatedAggregation
    /\ (pc = "stopped" /\ notice # "no_customer") => NoticeKind(notice) = "warning"

\* C25: the aggregation is gated, and a run stopped for want of a dataset,
\* of a sales column or of a row in the view has shown a warning, or, on
\* Home without a dataset, the "How it works" banner.
C25_GatedAggregation ==
    /\ GatedAggregation
    /\ (pc = "stopped" /\ notice # "no_customer") =>
          \/ NoticeKind(notice) = "warning"
          \/ notice = "how_it_works" /\ script = "Home" /\ data.none

\* C25 witness: after a change of the sidebar, a page has passed the three
\* gates and called what it calls.
C25_Witness ==
    /\ script = "Customers" /\ event = "filter" /\ pc = "done"
    /\ GatesPassed
    /\ "calculate_kpis" \in invoked /\ "get_top_customers" \in invoked

\* Whenever the session holds no dataset, the mapping is empty and the file
\* name is None.
NoDataNoMapping == data.none => (column_mapping = EmptyDict /\ file_name = None)

\* The run started by "Clear & upload new" finds all three reset.
ClearResets ==
    event = "clear" => (data = NoData /\ column_mapping = EmptyDict /\ file_name = None)

\* A step of a run started by an upload that could not be read leaves the
\* dataset and the file name as they were.
FailedUploadKeeps ==
    event' = "upload_failed" => (data' = data /\ file_name' = file_name)

\* C30: without a dataset the session has an empty mapping and no file
\* name; Clear resets the dataset, the mapping and the file name together;
\* a failed upload leaves the dataset and the file name unchanged.
C30_SessionConsistent ==
    /\ [](NoDataNoMapping /\ ClearResets)
    /\ [][FailedUploadKeeps]_vars

\* C30 witness: an unreadable file in the uploader of a session that holds
\* the dataset of a.csv with its mapping.
C30_Witness ==
    /\ event = "upload_failed" /\ ~uploaded_file.none /\ ~uploaded_file.readable
    /\ ~data.none /\ file_name # None /\ file_name # uploaded_file.name
    /\ Mapped(column_mapping, "sales")

====
